---- MODULE Spec2Model ----
(***************************************************************************)
(* A model of spindrift's mock CNC server (src/spindrift/mock_server.py)   *)
(* and of its XMODEM engine (src/spindrift/xmodem.py).                     *)
(*                                                                         *)
(*   Spec      the connection handlers of one MockCNCServer                *)
(*   SpecSend  XMODEMProtocol.send_file against an arbitrary peer          *)
(*   SpecRecv  XMODEMProtocol.receive_file against an arbitrary peer       *)
(*   SpecXfer  send_file and receive_file joined by two FIFO byte channels *)
(*   SpecLate  the two joined, each timing out whenever its timer runs out *)
(*   SpecSendFair, SpecRecvFair  SpecSend and SpecRecv that keep running   *)
(*   SpecCrc   XMODEMProtocol.calc_crc on each of a set of byte strings    *)
(*   SpecParse MockCNCServer._parse_command on each of a set of lines      *)
(*   SpecClock MockCNCServer._handle_time_command and the wall clock       *)
(*   SpecStore MockCNCServer._handle_rm_command and _handle_mv_command     *)
(***************************************************************************)
EXTENDS Integers, Sequences, FiniteSets, TLC

VARIABLES
    \* ---- MockCNCServer ----
    active_connection,  \* self.active_connection: the admitted connection, or None
    connection_cwd,     \* self.connection_cwd: connection -> cwd (a path)
    virtual_files,      \* self.virtual_files: the set of stored file paths
    initial_epoch_time, \* self._initial_epoch_time (set with _time_initialized), or None
    hpc,                \* per connection: where its _handle_client coroutine is
    sent,               \* per connection: the lines written to its writer while open
    xm_out,             \* per connection: the bytes putc wrote, each with its place in sent
    inbuf,              \* per connection: the lines received and not yet consumed
    waiter,             \* per connection: a reader.read(1) left behind by getc is waiting
    nlines,             \* per connection: lines the client has sent on it so far
    pending             \* per connection: the lines awaiting the think-time sleep

srvVars == <<active_connection, connection_cwd, virtual_files, initial_epoch_time, hpc,
             sent, xm_out, inbuf, waiter, nlines, pending>>

NoConn == 0    \* active_connection is None
NoEpoch == -1  \* _initial_epoch_time is None

\* A response line: its text and, where it prints one, a path.
Line(text, path) == [text |-> text, path |-> path]
NoResponse == <<>>
NoArg == [lead |-> 0, segs |-> <<>>]

\* ------------------------------------------------------------------------
\* Bounds of the server model
\* ------------------------------------------------------------------------
MaxConns == 2   \* connections that may be open at once
MaxLines == 2   \* lines one client sends on one connection

Conns == 1..MaxConns

\* ------------------------------------------------------------------------
\* Paths.  An absolute path is the sequence of its components, "/" being
\* <<>>; a path that begins with exactly two slashes has "" as its first
\* component ("//" is <<"">>).  A path argument is [lead, segs]: the number of
\* slashes it begins with and its components as typed.
\* ------------------------------------------------------------------------
Root == <<>>

RECURSIVE normpath(_, _)
\* os.path.normpath on the components: "." and empty components vanish,
\* ".." removes the component before it and is dropped at the root.
normpath(done, segs) ==
    IF segs = <<>> THEN done
    ELSE LET s == Head(segs)
         IN IF s = "." \/ s = "" THEN normpath(done, Tail(segs))
            ELSE IF s = ".."
                 THEN normpath(IF done = <<>> THEN <<>> ELSE SubSeq(done, 1, Len(done) - 1),
                               Tail(segs))
                 ELSE normpath(Append(done, s), Tail(segs))

\* os.path.normpath keeps two leading slashes, and only two.
initial_slashes(lead) == IF lead = 2 THEN <<"">> ELSE <<>>

get_connection_cwd(c) ==
    IF c \in DOMAIN connection_cwd THEN connection_cwd[c] ELSE Root

\* _normalize_path: normpath(path) or normpath(join(cwd, path)).
normalize_path(path, c) ==
    IF path.lead > 0 THEN initial_slashes(path.lead) \o normpath(<<>>, path.segs)
    ELSE LET cwd == get_connection_cwd(c)
             lead == IF cwd # <<>> /\ cwd[1] = "" THEN 2 ELSE 1
         IN  initial_slashes(lead) \o normpath(<<>>, cwd \o path.segs)

IsPrefix(p, q) == Len(p) <= Len(q) /\ SubSeq(q, 1, Len(p)) = p

\* _directory_exists: dir_path.rstrip("/") is "" for "/" and for "//".
directory_exists(dir) ==
    \/ dir = Root
    \/ dir = <<"">>
    \/ \E f \in virtual_files : Len(f) > Len(dir) /\ IsPrefix(dir, f)

\* The files the server starts with (artifacts/virtual_files.json).
InitialFiles == { <<"foo", "a.nc">>, <<"bar", "b.nc">> }

\* ------------------------------------------------------------------------
\* Command lines and their responses
\* ------------------------------------------------------------------------
BusyLine == "ERROR: Server busy, only one connection allowed"
UnknownLine == "ERROR: Unknown command"
OkLine == Line("ok (sends_ok)", <<>>)

\* A line as the client sends it: its first word, its argument and its
\* length in bytes with the line feed ("time" is the line "time = 5").
\* BlankLine is "\n"; a Fragment is what
\* is left of a line whose first bytes were taken by another reader.
CommandLine(key, arg, bytes) == [key |-> key, arg |-> arg, bytes |-> bytes]
BlankLine == CommandLine("", NoArg, 1)
Fragment(bytes) == CommandLine("(fragment)", NoArg, bytes)

CommandLines ==
    { CommandLine("pwd", NoArg, 4), CommandLine("version", NoArg, 8),
      CommandLine("bogus", NoArg, 6), CommandLine("time", NoArg, 9),
      CommandLine("cd", [lead |-> 1, segs |-> <<"foo">>], 8),
      CommandLine("cd", [lead |-> 0, segs |-> <<"..", "bar">>], 10),
      CommandLine("cd", [lead |-> 2, segs |-> <<>>], 6),
      CommandLine("rm", [lead |-> 1, segs |-> <<"foo", "a.nc">>], 13),
      CommandLine("upload", [lead |-> 0, segs |-> <<"a.nc">>], 12),
      CommandLine("download", [lead |-> 1, segs |-> <<"foo", "a.nc">>], 19) }

\* The catalogue (artifacts/commands.json): the keys _parse_command finds,
\* and the one among them whose descriptor has sends_ok.
KnownKeys == {"pwd", "cd", "rm", "version", "time", "upload", "download"}
SendsOk(key) == key = "version"

\* ========================================================================
\* XMODEM (src/spindrift/xmodem.py)
\* ========================================================================

\* Protocol bytes
SOH == 1
STX == 2
EOT == 4
ACK == 6
NAK == 21
CAN == 22
CRC == 67
PAD == 26
JUNK == 63   \* a byte that is none of the protocol bytes ("?")

\* A getc that timed out or came back short returns None.
NoByte == -1

crctable ==
    <<
           0,  4129,  8258, 12387, 16516, 20645, 24774, 28903,
       33032, 37161, 41290, 45419, 49548, 53677, 57806, 61935,
        4657,   528, 12915,  8786, 21173, 17044, 29431, 25302,
       37689, 33560, 45947, 41818, 54205, 50076, 62463, 58334,
        9314, 13379,  1056,  5121, 25830, 29895, 17572, 21637,
       42346, 46411, 34088, 38153, 58862, 62927, 50604, 54669,
       13907,  9842,  5649,  1584, 30423, 26358, 22165, 18100,
       46939, 42874, 38681, 34616, 63455, 59390, 55197, 51132,
       18628, 22757, 26758, 30887,  2112,  6241, 10242, 14371,
       51660, 55789, 59790, 63919, 35144, 39273, 43274, 47403,
       23285, 19156, 31415, 27286,  6769,  2640, 14899, 10770,
       56317, 52188, 64447, 60318, 39801, 35672, 47931, 43802,
       27814, 31879, 19684, 23749, 11298, 15363,  3168,  7233,
       60846, 64911, 52716, 56781, 44330, 48395, 36200, 40265,
       32407, 28342, 24277, 20212, 15891, 11826,  7761,  3696,
       65439, 61374, 57309, 53244, 48923, 44858, 40793, 36728,
       37256, 33193, 45514, 41451, 53516, 49453, 61774, 57711,
        4224,   161, 12482,  8419, 20484, 16421, 28742, 24679,
       33721, 37784, 41979, 46042, 49981, 54044, 58239, 62302,
         689,  4752,  8947, 13010, 16949, 21012, 25207, 29270,
       46570, 42443, 38312, 34185, 62830, 58703, 54572, 50445,
       13538,  9411,  5280,  1153, 29798, 25671, 21540, 17413,
       42971, 47098, 34713, 38840, 59231, 63358, 50973, 55100,
        9939, 14066,  1681,  5808, 26199, 30326, 17941, 22068,
       55628, 51565, 63758, 59695, 39368, 35305, 47498, 43435,
       22596, 18533, 30726, 26663,  6336,  2273, 14466, 10403,
       52093, 56156, 60223, 64286, 35833, 39896, 43963, 48026,
       19061, 23124, 27191, 31254,  2801,  6864, 10931, 14994,
       64814, 60687, 56684, 52557, 48554, 44427, 40424, 36297,
       31782, 27655, 23652, 19525, 15522, 11395,  7392,  3265,
       61215, 65342, 53085, 57212, 44955, 49082, 36825, 40952,
       28183, 32310, 20053, 24180, 11923, 16050,  3793,  7920
    >>

\* Bitwise exclusive or of two bytes, and of two 16-bit words.
RECURSIVE XorBits(_, _, _)
XorBits(a, b, n) ==
    IF n = 0 THEN 0
    ELSE (((a % 2) + (b % 2)) % 2) + 2 * XorBits(a \div 2, b \div 2, n - 1)

XorByte == [a \in 0..255 |-> [b \in 0..255 |-> XorBits(a, b, 8)]]

XorWord(a, b) == XorByte[a \div 256][b \div 256] * 256 + XorByte[a % 256][b % 256]

\* A turn of the loop that leaves the shifted-out byte out of the index.
CrcStepIndexByChar(crc, char) ==
    XorWord((crc * 256) % 65536, crctable[char + 1])

\* One turn of calc_crc's loop.
CrcStep(crc, char) ==
    LET crctbl_idx == XorByte[crc \div 256][char]
    IN  XorWord((crc * 256) % 65536, crctable[crctbl_idx + 1])

\* calc_crc over data[lo..hi], the bytes taken in order.
RECURSIVE CrcRange(_, _, _, _)
CrcRange(data, crc, lo, hi) ==
    IF lo > hi THEN crc
    ELSE IF lo = hi THEN CrcStep(crc, data[lo])
    ELSE LET mid == (lo + hi) \div 2
             left == CrcRange(data, crc, lo, mid)
         IN  IF left >= 0 THEN CrcRange(data, left, mid + 1, hi) ELSE left

calc_crc(data) == CrcRange(data, 0, 1, Len(data)) % 65536

RECURSIVE SumRange(_, _, _)
SumRange(data, lo, hi) ==
    IF lo > hi THEN 0
    ELSE IF lo = hi THEN data[lo]
    ELSE LET mid == (lo + hi) \div 2
             left == SumRange(data, lo, mid)
         IN  IF left >= 0 THEN left + SumRange(data, mid + 1, hi) ELSE left

calc_checksum(data) == SumRange(data, 1, Len(data)) % 256

\* ------------------------------------------------------------------------
\* Inputs: files and their MD5 digests (hashlib.md5(...).hexdigest())
\* ------------------------------------------------------------------------
FileIds == {0, 1, 2, 3}

\* The empty file, a short file, one 128-byte block, one 8192-byte block.
FileBytes(k) ==
    CASE k = 0 -> <<>>
      [] k = 1 -> <<104, 105>>
      [] k = 2 -> [i \in 1..128 |-> 65]
      [] k = 3 -> [i \in 1..8192 |-> 66]

Md5Hex(k) ==
    CASE k = 0 -> <<100, 52, 49, 100, 56, 99, 100, 57, 56, 102, 48, 48, 98, 50, 48, 52,
                    101, 57, 56, 48, 48, 57, 57, 56, 101, 99, 102, 56, 52, 50, 55, 101>>
      [] k = 1 -> <<52, 57, 102, 54, 56, 97, 53, 99, 56, 52, 57, 51, 101, 99, 50, 99,
                    48, 98, 102, 52, 56, 57, 56, 50, 49, 99, 50, 49, 102, 99, 51, 98>>
      [] k = 2 -> <<97, 102, 51, 53, 98, 48, 100, 51, 52, 56, 101, 53, 49, 54, 50, 48,
                    51, 54, 101, 49, 56, 51, 51, 51, 57, 100, 51, 56, 53, 98, 48, 99>>
      [] k = 3 -> <<97, 53, 49, 100, 55, 52, 50, 100, 57, 52, 55, 57, 97, 102, 48, 57,
                    57, 98, 99, 97, 56, 98, 49, 49, 51, 56, 56, 49, 100, 57, 48, 49>>

Modes == {"xmodem", "xmodem8k"}

PacketSize(mode) == IF mode = "xmodem" THEN 128 ELSE 8192

IsStx(packet_size) == IF packet_size > 255 THEN 1 ELSE 0

\* ------------------------------------------------------------------------
\* Framing
\* ------------------------------------------------------------------------
make_send_header(packet_size, sequence) ==
    <<IF packet_size = 128 THEN SOH ELSE STX, sequence, 255 - sequence>>

make_send_checksum(crc_mode, data) ==
    IF crc_mode
    THEN LET crc == calc_crc(data) IN <<crc \div 256, crc % 256>>
    ELSE <<calc_checksum(data)>>

\* bytes.ljust(n, pad)
ljust(data, n) ==
    IF Len(data) >= n THEN data ELSE data \o [i \in 1..(n - Len(data)) |-> PAD]

\* The length prefix and the padded payload of one block.
FrameData(data, packet_size) ==
    IF IsStx(packet_size) = 0
    THEN <<Len(data) % 256>> \o ljust(data, packet_size)
    ELSE <<Len(data) \div 256, Len(data) % 256>> \o ljust(data, packet_size)

\* header + data + checksum, as send_file hands it to putc.
MakePacket(packet_size, sequence, crc_mode, data) ==
    LET framed == FrameData(data, packet_size)
    IN  make_send_header(packet_size, sequence) \o framed
            \o make_send_checksum(crc_mode, framed)

\* send_file logs the checksum of every block it has composed with
\*   f"...0x{checksum_value:04x if crc_mode else checksum_value:02x}"
\* whose format specification is the text "04x if crc_mode else
\* checksum_value:02x".  int.__format__ rejects it for every value, in both
\* check modes, and the f-string is evaluated whatever the log level: the
\* statement raises ValueError and send_file ends there.
ChecksumLogRaises(crc_mode, packet) == TRUE

\* ------------------------------------------------------------------------
\* The byte channels and the engines' state
\* ------------------------------------------------------------------------
VARIABLES
    world,          \* which system is running: "srv", "send", "recv", "xfer", "late", "crc",
                    \* "parse", "clock", "store"
    s_in,           \* bytes on their way to the sender's getc
    r_in,           \* bytes on their way to the receiver's getc
    p_budget,       \* messages an arbitrary peer may still send, or the channel lose
    \* ---- send_file ----
    s_pc,           \* the getc it waits in, or "idle" / "done"
    s_result,       \* its outcome: True, False, None, or the exception raised
    s_retry,        \* argument retry
    s_mode,         \* self.mode
    s_file,         \* the file behind stream
    s_md5,          \* argument md5_hash, as bytes
    s_error_count,
    s_crc_mode,
    s_cancel,
    s_canceled,     \* self.canceled
    s_sequence,
    s_md5_sent,
    s_hs_done,      \* the handshake loop was left through break
    s_reads,        \* getc calls made in the handshake loop
    s_char,         \* the local char: what the last getc returned
    s_wire,         \* what the sender passed to putc, one entry per call
    \* ---- receive_file ----
    r_pc,           \* the getc it waits in, or "idle" / "start" / "done"
    r_result,       \* its return value
    r_retry,        \* argument retry
    r_md5,          \* argument md5_hash, as bytes
    r_crc_mode,     \* argument crc_mode, then the local: 1 or 0
    r_mode,         \* self.mode
    r_error_count,
    r_cancel,
    r_canceled,     \* self.canceled
    r_sequence,
    r_retrans,
    r_md5_received,
    r_income_size,
    r_sink,         \* the bytes written to stream
    r_wire,         \* the bytes the receiver passed to putc
    r_dropped       \* blocks discarded because their sequence bytes were wrong

chanVars == <<s_in, r_in, p_budget>>

sendVars == <<s_pc, s_result, s_retry, s_mode, s_file, s_md5, s_error_count,
              s_crc_mode, s_cancel, s_canceled, s_sequence, s_md5_sent,
              s_hs_done, s_reads, s_char, s_wire>>

recvVars == <<r_pc, r_result, r_retry, r_md5, r_crc_mode, r_mode, r_error_count,
              r_cancel, r_canceled, r_sequence, r_retrans, r_md5_received,
              r_income_size, r_sink, r_wire, r_dropped>>

\* Bounds of the engine models
MaxRetry == 2       \* the retry arguments tried are 0..MaxRetry
MaxPeerBytes == 3   \* bytes an arbitrary peer sends to send_file
MaxPeerMsgs == 3    \* messages an arbitrary peer sends to receive_file
MaxPending == 0     \* bytes that may be queued when the peer sends again
MaxLost == 1        \* bytes the channels between two engines may lose

RECURSIVE Flatten(_)
Flatten(writes) ==
    IF writes = <<>> THEN <<>> ELSE Head(writes) \o Flatten(Tail(writes))

\* A getc may time out when nothing is queued for it; where both engines
\* run ("xfer"), only when the other engine has nothing to answer either;
\* where one of them may be slow to start reading ("late"), at any time.
SendTimeoutAllowed ==
    world # "xfer" \/ (r_in = <<>> /\ r_pc # "start") \/ r_pc = "done"
RecvTimeoutAllowed == world # "xfer" \/ s_in = <<>> \/ s_pc = "done"

\* ------------------------------------------------------------------------
\* send_file
\* ------------------------------------------------------------------------
\* getc(1, timeout) on the sender's channel: the byte, or None on timeout.
SGetc == IF s_in = <<>> THEN NoByte ELSE Head(s_in)

\* The sender's channel after a getc(1).
SRest == IF s_in = <<>> THEN <<>> ELSE Tail(s_in)

\* abort(): count CAN bytes, one putc each.
AbortBytes(count) == [i \in 1..count |-> <<CAN>>]

\* putc, once per entry of writes.
SendPut(writes) ==
    /\ s_wire' = s_wire \o writes
    /\ r_in' = IF world \in {"xfer", "late"} THEN r_in \o Flatten(writes) ELSE r_in

SendReturn(result, writes) ==
    /\ s_pc' = "done"
    /\ s_result' = result
    /\ SendPut(writes)

SendStay(writes) ==
    /\ UNCHANGED <<s_pc, s_result>>
    /\ SendPut(writes)

\* The data loop entered after the handshake, up to its first getc.
SendBeginData(crc_mode) ==
    LET packet_size == PacketSize(s_mode)
        data == s_md5
        packet == MakePacket(packet_size, 0, crc_mode, data)
    IN  /\ s_crc_mode' = crc_mode
        /\ s_error_count' = 0
        /\ s_hs_done' = TRUE
        /\ s_sequence' = 0
        /\ UNCHANGED s_cancel
        /\ IF s_canceled
           THEN \* three CAN, drain the input, clear the flag, return None
                /\ SendReturn("None", <<<<CAN>>, <<CAN>>, <<CAN>>>>)
                /\ s_canceled' = FALSE
                /\ s_in' = <<>>
                /\ UNCHANGED s_md5_sent
           ELSE /\ s_md5_sent' = TRUE
                /\ UNCHANGED s_canceled
                /\ s_in' = SRest
                /\ IF data = <<>>
                   THEN \* "if not data: break": straight to EOT
                        /\ s_pc' = "eot_read"
                        /\ SendPut(<<<<EOT>>>>)
                        /\ UNCHANGED s_result
                   ELSE IF ChecksumLogRaises(crc_mode, packet)
                        THEN SendReturn("ValueError", <<>>)
                        ELSE \* the packet would go out and its answer be read
                             /\ s_pc' = "ack_read"
                             /\ SendPut(<<packet>>)
                             /\ UNCHANGED s_result

\* error_count += 1 at the foot of the handshake loop, ending it too soon.
SendHandshakeErrorEarly(cancel) ==
    /\ s_cancel' = cancel
    /\ s_error_count' = s_error_count + 1
    /\ s_in' = SRest
    /\ IF s_error_count + 1 >= s_retry
       THEN SendReturn("False", AbortBytes(2))
       ELSE SendStay(<<>>)
    /\ UNCHANGED <<s_crc_mode, s_canceled, s_sequence, s_md5_sent, s_hs_done>>

\* error_count += 1 at the foot of the handshake loop.
SendHandshakeError(cancel) ==
    /\ s_cancel' = cancel
    /\ s_error_count' = s_error_count + 1
    /\ s_in' = SRest
    /\ IF s_error_count + 1 > s_retry
       THEN SendReturn("False", AbortBytes(2))
       ELSE SendStay(<<>>)
    /\ UNCHANGED <<s_crc_mode, s_canceled, s_sequence, s_md5_sent, s_hs_done>>

\* One turn of the handshake loop: char = getc(1, timeout) and what follows.
SendHandshake ==
    /\ s_pc = "hs_read"
    /\ s_in # <<>> \/ SendTimeoutAllowed
    /\ s_reads' = s_reads + 1
    /\ s_char' = SGetc
    /\ LET char == SGetc
       IN  IF char = NAK THEN SendBeginData(FALSE)
           ELSE IF char = CRC THEN SendBeginData(TRUE)
           ELSE IF char = CAN /\ s_cancel = 1
                THEN /\ SendReturn("None", <<>>)
                     /\ s_in' = SRest
                     /\ UNCHANGED <<s_error_count, s_crc_mode, s_cancel, s_canceled,
                                    s_sequence, s_md5_sent, s_hs_done>>
           ELSE IF char = EOT
                THEN /\ SendReturn("False", <<>>)
                     /\ s_in' = SRest
                     /\ UNCHANGED <<s_error_count, s_crc_mode, s_cancel, s_canceled,
                                    s_sequence, s_md5_sent, s_hs_done>>
           ELSE SendHandshakeError(IF char = CAN THEN 1 ELSE s_cancel)
    /\ UNCHANGED <<s_retry, s_mode, s_file, s_md5>>

\* One turn of the EOT loop: the answer to the EOT already on the wire.
SendEot ==
    /\ s_pc = "eot_read"
    /\ s_in # <<>> \/ SendTimeoutAllowed
    /\ s_in' = SRest
    /\ s_char' = SGetc
    /\ IF SGetc = ACK
       THEN /\ SendReturn("True", <<>>)
            /\ UNCHANGED s_error_count
       ELSE /\ s_error_count' = s_error_count + 1
            /\ IF s_error_count + 1 > s_retry
               THEN SendReturn("False", AbortBytes(2))
               ELSE SendStay(<<<<EOT>>>>)
    /\ UNCHANGED <<s_retry, s_mode, s_file, s_md5, s_crc_mode, s_cancel, s_canceled,
                   s_sequence, s_md5_sent, s_hs_done, s_reads>>

\* The state in which send_file has just been called.
SendCalled ==
    /\ s_pc = "hs_read"
    /\ s_result = "running"
    /\ s_retry \in 0..MaxRetry
    /\ s_mode \in Modes
    /\ s_file \in FileIds
    /\ s_md5 \in {Md5Hex(s_file), <<>>}
    /\ s_error_count = 0
    /\ s_crc_mode = FALSE
    /\ s_cancel = 0
    /\ s_canceled \in BOOLEAN
    /\ s_sequence = 0
    /\ s_md5_sent = FALSE
    /\ s_hs_done = FALSE
    /\ s_reads = 0
    /\ s_char = NoByte
    /\ s_wire = <<>>

\* No send in progress.
SendIdle ==
    /\ s_pc = "idle"
    /\ s_result = "running"
    /\ s_retry = 0
    /\ s_mode = "xmodem8k"
    /\ s_file = 0
    /\ s_md5 = <<>>
    /\ s_error_count = 0
    /\ s_crc_mode = FALSE
    /\ s_cancel = 0
    /\ s_canceled = FALSE
    /\ s_sequence = 0
    /\ s_md5_sent = FALSE
    /\ s_hs_done = FALSE
    /\ s_reads = 0
    /\ s_char = NoByte
    /\ s_wire = <<>>

\* An arbitrary peer of send_file: any of these bytes, at any time.
PeerBytes == {NAK, CRC, CAN, EOT, ACK, JUNK}

PeerToSender(b) ==
    /\ s_pc # "done"
    /\ p_budget > 0
    /\ p_budget' = p_budget - 1
    /\ s_in' = Append(s_in, b)
    /\ UNCHANGED r_in

\* ------------------------------------------------------------------------
\* receive_file
\* ------------------------------------------------------------------------
\* Return values of receive_file: None, or an int.
RNone == [kind |-> "None", val |-> 0]
RInt(n) == [kind |-> "int", val |-> n]
RRunning == [kind |-> "running", val |-> 0]

Take(q, n) == SubSeq(q, 1, n)
Drop(q, n) == SubSeq(q, n + 1, Len(q))

\* The blocks an arbitrary peer of receive_file composes: the MD5 block of
\* file 1 and a data block holding file 1, per block size and check mode.
PeerBlock(packet_size, crc_mode, sequence) ==
    MakePacket(packet_size, sequence, crc_mode,
               IF sequence = 0 THEN Md5Hex(1) ELSE FileBytes(1))

\* Tables are tuples, indexed by block size, check mode and sequence.
SizeIx(packet_size) == IF packet_size = 128 THEN 1 ELSE 2
ModeIx(crc_mode) == IF crc_mode THEN 2 ELSE 1

PeerBlocks ==
    << << <<PeerBlock(128, FALSE, 0), PeerBlock(128, FALSE, 1)>>,
          <<PeerBlock(128, TRUE, 0), PeerBlock(128, TRUE, 1)>> >>,
       << <<PeerBlock(8192, FALSE, 0), PeerBlock(8192, FALSE, 1)>>,
          <<PeerBlock(8192, TRUE, 0), PeerBlock(8192, TRUE, 1)>> >> >>

\* The framed payloads that travel, their calc_crc and their calc_checksum,
\* computed once.
KnownFrames ==
    << <<FrameData(Md5Hex(1), 128), FrameData(FileBytes(1), 128)>>,
       <<FrameData(Md5Hex(1), 8192), FrameData(FileBytes(1), 8192)>> >>

KnownCrc ==
    << <<calc_crc(KnownFrames[1][1]), calc_crc(KnownFrames[1][2])>>,
       <<calc_crc(KnownFrames[2][1]), calc_crc(KnownFrames[2][2])>> >>

KnownSum ==
    << <<calc_checksum(KnownFrames[1][1]), calc_checksum(KnownFrames[1][2])>>,
       <<calc_checksum(KnownFrames[2][1]), calc_checksum(KnownFrames[2][2])>> >>

\* Which known frame data is: <<size index, sequence index>>, or <<0, 0>>.
KnownFrame(data) ==
    LET p == Len(data) - 1 - IsStx(Len(data))
    IN  IF p \notin {128, 8192} THEN <<0, 0>>
        ELSE IF data = KnownFrames[SizeIx(p)][1] THEN <<SizeIx(p), 1>>
        ELSE IF data = KnownFrames[SizeIx(p)][2] THEN <<SizeIx(p), 2>>
        ELSE <<0, 0>>

CrcOf(data) ==
    LET k == KnownFrame(data)
    IN  IF k[1] = 0 THEN calc_crc(data) ELSE KnownCrc[k[1]][k[2]]

SumOf(data) ==
    LET k == KnownFrame(data)
    IN  IF k[1] = 0 THEN calc_checksum(data) ELSE KnownSum[k[1]][k[2]]

\* A verification that strips the check bytes without comparing them.
VerifyUnchecked(crc_mode, data) ==
    [valid |-> TRUE,
     data |-> Take(data, Len(data) - (IF crc_mode THEN 2 ELSE 1))]

\* _verify_recv_checksum: (valid, data without its check bytes).
verify_recv_checksum(crc_mode, data) ==
    IF crc_mode
    THEN LET n == Len(data)
             their_sum == data[n - 1] * 256 + data[n]
             body == Take(data, n - 2)
         IN  [valid |-> their_sum = CrcOf(body), data |-> body]
    ELSE LET n == Len(data)
             body == Take(data, n - 1)
         IN  [valid |-> data[n] = SumOf(body), data |-> body]

\* putc, once per byte of bytes.
RecvPut(bytes) ==
    /\ r_wire' = r_wire \o bytes
    /\ s_in' = IF world \in {"xfer", "late"} THEN s_in \o bytes ELSE s_in

RecvReturn(result, bytes, rest) ==
    /\ r_pc' = "done"
    /\ r_result' = result
    /\ RecvPut(bytes)
    /\ r_in' = rest

RecvWait(pc, bytes, rest) ==
    /\ r_pc' = pc
    /\ UNCHANGED r_result
    /\ RecvPut(bytes)
    /\ r_in' = rest

\* A handshake loop that falls back to NAK without "crc_mode = 0".
RecvProbeKeepsMode(error_count, cancel, rest) ==
    /\ r_error_count' = error_count
    /\ r_cancel' = cancel
    /\ UNCHANGED <<r_mode, r_canceled, r_sequence, r_retrans, r_md5_received,
                   r_income_size, r_sink, r_dropped, r_crc_mode>>
    /\ IF error_count >= r_retry
       THEN RecvReturn(RNone, <<CAN, CAN>>, rest)
       ELSE IF r_crc_mode = 1 /\ error_count < r_retry \div 2
       THEN RecvWait("hs_read", <<CRC>>, rest)
       ELSE RecvWait("hs_read", <<NAK>>, rest)

\* The top of the handshake loop, up to its getc (putc is taken to succeed).
RecvProbe(error_count, cancel, rest) ==
    /\ r_error_count' = error_count
    /\ r_cancel' = cancel
    /\ UNCHANGED <<r_mode, r_canceled, r_sequence, r_retrans, r_md5_received,
                   r_income_size, r_sink, r_dropped>>
    /\ IF error_count >= r_retry
       THEN /\ RecvReturn(RNone, <<CAN, CAN>>, rest)
            /\ UNCHANGED r_crc_mode
       ELSE IF r_crc_mode = 1 /\ error_count < r_retry \div 2
       THEN /\ RecvWait("hs_read", <<CRC>>, rest)
            /\ UNCHANGED r_crc_mode
       ELSE /\ RecvWait("hs_read", <<NAK>>, rest)
            /\ r_crc_mode' = 0

\* An inner loop that returns the number of blocks on EOT, not of bytes.
RecvHeaderCharCountsBlocks(char, error_count, cancel, rest) ==
    IF char = SOH \/ char = STX
    THEN /\ r_error_count' = 0
         /\ r_cancel' = 0
         /\ RecvWait("blk_read", <<>>, rest)
    ELSE IF char = EOT
    THEN /\ RecvReturn(RInt(r_sequence), <<ACK>>, rest)
         /\ r_error_count' = error_count
         /\ r_cancel' = cancel
    ELSE IF char = CAN
    THEN \* "cancel = 1" and the loop tests the same char again: with cancel
         \* set it returns, so one CAN in this phase ends the transfer
         /\ RecvReturn(RNone, <<>>, rest)
         /\ r_error_count' = error_count
         /\ r_cancel' = 1
    ELSE IF char = NoByte
    THEN /\ r_error_count' = error_count + 1
         /\ r_cancel' = cancel
         /\ IF error_count + 1 > r_retry
            THEN RecvReturn(RNone, <<CAN, CAN>>, rest)
            ELSE RecvWait("hdr_inner", <<>>, rest)
    ELSE /\ r_error_count' = error_count + 1
         /\ r_cancel' = cancel
         /\ IF error_count + 1 > r_retry
            THEN RecvReturn(RNone, <<CAN, CAN>>, rest)
            ELSE \* purge until a read times out, then NAK
                 RecvWait("hdr_inner", <<NAK>>, <<>>)

\* The inner loop of the data phase, applied to the byte char just read.
RecvHeaderChar(char, error_count, cancel, rest) ==
    IF char = SOH \/ char = STX
    THEN /\ r_error_count' = 0
         /\ r_cancel' = 0
         /\ RecvWait("blk_read", <<>>, rest)
    ELSE IF char = EOT
    THEN /\ RecvReturn(RInt(r_income_size), <<ACK>>, rest)
         /\ r_error_count' = error_count
         /\ r_cancel' = cancel
    ELSE IF char = CAN
    THEN \* "cancel = 1" and the loop tests the same char again: with cancel
         \* set it returns, so one CAN in this phase ends the transfer
         /\ RecvReturn(RNone, <<>>, rest)
         /\ r_error_count' = error_count
         /\ r_cancel' = 1
    ELSE IF char = NoByte
    THEN /\ r_error_count' = error_count + 1
         /\ r_cancel' = cancel
         /\ IF error_count + 1 > r_retry
            THEN RecvReturn(RNone, <<CAN, CAN>>, rest)
            ELSE RecvWait("hdr_inner", <<>>, rest)
    ELSE /\ r_error_count' = error_count + 1
         /\ r_cancel' = cancel
         /\ IF error_count + 1 > r_retry
            THEN RecvReturn(RNone, <<CAN, CAN>>, rest)
            ELSE \* purge until a read times out, then NAK
                 RecvWait("hdr_inner", <<NAK>>, <<>>)

\* The cancellation branch sending CAN CAN and leaving the flag set.
RecvLoopTopAborts(char, error_count, cancel, rest) ==
    IF r_canceled
    THEN /\ RecvReturn(RInt(-1), <<CAN, CAN>>, <<>>)
         /\ UNCHANGED r_canceled
         /\ r_error_count' = error_count
         /\ r_cancel' = cancel
    ELSE /\ RecvHeaderChar(char, error_count, cancel, rest)
         /\ UNCHANGED r_canceled

\* The top of the outer loop of the data phase with char just read.
RecvLoopTop(char, error_count, cancel, rest) ==
    IF r_canceled
    THEN /\ RecvReturn(RInt(-1), <<CAN, CAN, CAN>>, <<>>)
         /\ r_canceled' = FALSE
         /\ r_error_count' = error_count
         /\ r_cancel' = cancel
    ELSE /\ RecvHeaderChar(char, error_count, cancel, rest)
         /\ UNCHANGED r_canceled

\* The handshake is over: initialise the data phase and enter its loop.
RecvBeginBlocks(char, rest) ==
    /\ r_mode' = IF char = SOH THEN "xmodem" ELSE "xmodem8k"
    /\ r_income_size' = 0
    /\ r_sequence' = 0
    /\ r_retrans' = r_retry + 1
    /\ r_md5_received' = FALSE
    /\ UNCHANGED <<r_crc_mode, r_sink, r_dropped>>
    /\ RecvLoopTop(char, 0, 0, rest)

\* receive_file is entered: the first probe goes out.
RecvStart ==
    /\ r_pc = "start"
    /\ RecvProbe(0, 0, r_in)
    /\ UNCHANGED <<r_retry, r_md5>>

\* A turn of the handshake loop that lets an unexpected byte pass uncounted.
RecvHandshakeForgiving ==
    /\ r_pc = "hs_read"
    /\ r_in # <<>> \/ RecvTimeoutAllowed
    /\ LET char == IF r_in = <<>> THEN NoByte ELSE Head(r_in)
           rest == IF r_in = <<>> THEN <<>> ELSE Tail(r_in)
       IN  IF char = NoByte THEN RecvProbe(r_error_count + 1, r_cancel, rest)
           ELSE IF char = SOH \/ char = STX THEN RecvBeginBlocks(char, rest)
           ELSE IF char = CAN
           THEN IF r_cancel = 1
                THEN /\ RecvReturn(RNone, <<>>, rest)
                     /\ UNCHANGED <<r_crc_mode, r_mode, r_error_count, r_cancel,
                                    r_canceled, r_sequence, r_retrans, r_md5_received,
                                    r_income_size, r_sink, r_dropped>>
                ELSE RecvProbe(r_error_count, 1, rest)
           ELSE RecvProbe(r_error_count, r_cancel, rest)
    /\ UNCHANGED <<r_retry, r_md5>>

\* One turn of the handshake loop: char = getc(1, timeout) and what follows.
RecvHandshake ==
    /\ r_pc = "hs_read"
    /\ r_in # <<>> \/ RecvTimeoutAllowed
    /\ LET char == IF r_in = <<>> THEN NoByte ELSE Head(r_in)
           rest == IF r_in = <<>> THEN <<>> ELSE Tail(r_in)
       IN  IF char = NoByte THEN RecvProbe(r_error_count + 1, r_cancel, rest)
           ELSE IF char = SOH \/ char = STX THEN RecvBeginBlocks(char, rest)
           ELSE IF char = CAN
           THEN IF r_cancel = 1
                THEN /\ RecvReturn(RNone, <<>>, rest)
                     /\ UNCHANGED <<r_crc_mode, r_mode, r_error_count, r_cancel,
                                    r_canceled, r_sequence, r_retrans, r_md5_received,
                                    r_income_size, r_sink, r_dropped>>
                ELSE RecvProbe(r_error_count, 1, rest)
           ELSE RecvProbe(r_error_count + 1, r_cancel, rest)
    /\ UNCHANGED <<r_retry, r_md5>>

\* The header byte of the next block: char = getc(1, ...) in the data phase.
RecvHeader ==
    /\ r_pc \in {"hdr_outer", "hdr_inner"}
    /\ r_in # <<>> \/ RecvTimeoutAllowed
    /\ LET char == IF r_in = <<>> THEN NoByte ELSE Head(r_in)
           rest == IF r_in = <<>> THEN <<>> ELSE Tail(r_in)
       IN  IF r_pc = "hdr_outer"
           THEN RecvLoopTop(char, r_error_count, r_cancel, rest)
           ELSE /\ RecvHeaderChar(char, r_error_count, r_cancel, rest)
                /\ UNCHANGED r_canceled
    /\ UNCHANGED <<r_retry, r_md5, r_crc_mode, r_mode, r_sequence, r_retrans,
                   r_md5_received, r_income_size, r_sink, r_dropped>>

\* "seq1 == seq2 == sequence" with the complement byte left out.
SequenceOkFirstByteOnly(seq1, seq2, sequence) == seq1 = sequence

\* "seq1 == seq2 == sequence"
\* A sequence test that asks the two bytes to agree with each other only.
SequenceOkAnyBlock(seq1, seq2, sequence) == seq1 = seq2

SequenceOk(seq1, seq2, sequence) == seq1 = seq2 /\ seq2 = sequence

\* The MD5 comparison taken one byte early, over the length prefix.
Md5MatchesFromPrefix(md5_hash, data, is_stx) ==
    md5_hash = SubSeq(data, 1 + is_stx, 32 + is_stx)

\* "md5_hash.encode() == data[1 + is_stx : 33 + is_stx]"
Md5Matches(md5_hash, data, is_stx) ==
    md5_hash = SubSeq(data, 2 + is_stx, 33 + is_stx)

\* Giving up one failed block too late: at "retrans < 0".
RecvRetransmitLate ==
    /\ r_retrans' = r_retrans - 1
    /\ IF r_retrans - 1 < 0
       THEN RecvReturn(RNone, <<CAN, CAN>>, <<>>)
       ELSE RecvWait("hdr_outer", <<NAK>>, <<>>)
    /\ UNCHANGED <<r_sequence, r_md5_received, r_income_size, r_sink>>

\* Giving up on the retransmissions without the abort sequence.
RecvRetransmitSilent ==
    /\ r_retrans' = r_retrans - 1
    /\ IF r_retrans - 1 <= 0
       THEN RecvReturn(RNone, <<>>, <<>>)
       ELSE RecvWait("hdr_outer", <<NAK>>, <<>>)
    /\ UNCHANGED <<r_sequence, r_md5_received, r_income_size, r_sink>>

\* "Something went wrong": purge, count the retransmission, NAK or give up.
RecvRetransmit ==
    /\ r_retrans' = r_retrans - 1
    /\ IF r_retrans - 1 <= 0
       THEN RecvReturn(RNone, <<CAN, CAN>>, <<>>)
       ELSE RecvWait("hdr_outer", <<NAK>>, <<>>)
    /\ UNCHANGED <<r_sequence, r_md5_received, r_income_size, r_sink>>

\* The size of a block's data with the check always taken as two bytes.
ExpectedDataSizeCrc(is_stx, packet_size, crc_mode) == 1 + is_stx + packet_size + 2

\* "expected_data_size = 1 + is_stx + packet_size + 1 + crc_mode"
ExpectedDataSize(is_stx, packet_size, crc_mode) == 1 + is_stx + packet_size + 1 + crc_mode

\* The block behind a header: both sequence bytes, the payload and its check.
RecvBlock ==
    /\ r_pc = "blk_read"
    /\ LET packet_size == PacketSize(r_mode)
           is_stx == IsStx(packet_size)
           seq1 == IF Len(r_in) >= 1 THEN r_in[1] ELSE NoByte
           seq2 == IF Len(r_in) >= 2 THEN 255 - r_in[2] ELSE NoByte
           seq_ok == SequenceOk(seq1, seq2, r_sequence)
           expected_data_size == ExpectedDataSize(is_stx, packet_size, r_crc_mode)
           after_seq == Drop(r_in, 2)
           have_data == seq_ok /\ Len(after_seq) >= expected_data_size
           checked == verify_recv_checksum(r_crc_mode = 1,
                                           Take(after_seq, expected_data_size))
           data == checked.data
           rest == Drop(after_seq, expected_data_size)
       IN  /\ Len(r_in) >= 2 + expected_data_size \/ RecvTimeoutAllowed
           /\ IF have_data /\ checked.valid
              THEN /\ r_retrans' = r_retry + 1
                   /\ UNCHANGED r_dropped
                   /\ IF r_sequence = 0 /\ ~r_md5_received
                      THEN /\ r_md5_received' = TRUE
                           /\ UNCHANGED <<r_income_size, r_sink>>
                           /\ IF Md5Matches(r_md5, data, is_stx)
                              THEN /\ RecvReturn(RInt(0), <<CAN, CAN, CAN>>, <<>>)
                                   /\ UNCHANGED r_sequence
                              ELSE /\ RecvWait("hdr_outer", <<ACK>>, rest)
                                   /\ r_sequence' = (r_sequence + 1) % 256
                      ELSE LET data_len == IF is_stx = 1 THEN data[1] * 256 + data[2]
                                                         ELSE data[1]
                               last == IF data_len + 1 + is_stx > Len(data)
                                       THEN Len(data) ELSE data_len + 1 + is_stx
                               actual_data == SubSeq(data, 2 + is_stx, last)
                           IN  /\ r_income_size' = r_income_size + Len(actual_data)
                               /\ r_sink' = r_sink \o actual_data
                               /\ UNCHANGED r_md5_received
                               /\ RecvWait("hdr_outer", <<ACK>>, rest)
                               /\ r_sequence' = (r_sequence + 1) % 256
              ELSE /\ r_dropped' = IF Len(r_in) >= 2 /\ ~seq_ok THEN r_dropped + 1
                                                          ELSE r_dropped
                   /\ RecvRetransmit
    /\ UNCHANGED <<r_retry, r_md5, r_crc_mode, r_mode, r_error_count, r_cancel,
                   r_canceled>>

\* The state in which receive_file has just been called.
RecvCalled ==
    /\ r_pc = "start"
    /\ r_result = RRunning
    /\ r_retry \in 0..MaxRetry
    /\ r_md5 \in {Md5Hex(1), <<>>}
    /\ r_crc_mode \in {0, 1}
    /\ r_mode = "xmodem8k"
    /\ r_error_count = 0
    /\ r_cancel = 0
    /\ r_canceled \in BOOLEAN
    /\ r_sequence = 0
    /\ r_retrans = 0
    /\ r_md5_received = FALSE
    /\ r_income_size = 0
    /\ r_sink = <<>>
    /\ r_wire = <<>>
    /\ r_dropped = 0

\* No receive in progress.
RecvIdle ==
    /\ r_pc = "idle"
    /\ r_result = RRunning
    /\ r_retry = 0
    /\ r_md5 = <<>>
    /\ r_crc_mode = 1
    /\ r_mode = "xmodem8k"
    /\ r_error_count = 0
    /\ r_cancel = 0
    /\ r_canceled = FALSE
    /\ r_sequence = 0
    /\ r_retrans = 0
    /\ r_md5_received = FALSE
    /\ r_income_size = 0
    /\ r_sink = <<>>
    /\ r_wire = <<>>
    /\ r_dropped = 0

\* An arbitrary peer of receive_file.  It frames blocks of either size until
\* the receiver has settled on one, with the check the receiver last asked
\* for; besides sound blocks 0 and 1 it sends blocks with an inconsistent
\* complement, blocks with a damaged check, and single bytes.
PeerSizes == IF r_pc \in {"start", "hs_read"} THEN {128, 8192} ELSE {PacketSize(r_mode)}

BadComplement(block) == [block EXCEPT ![3] = block[2]]

BadCheck(block) == [block EXCEPT ![Len(block)] = (block[Len(block)] + 1) % 256]

Damaged(block) == <<block, BadComplement(block), BadCheck(block)>>

PeerMenu ==
    << << Damaged(PeerBlocks[1][1][1]) \o Damaged(PeerBlocks[1][1][2]),
          Damaged(PeerBlocks[1][2][1]) \o Damaged(PeerBlocks[1][2][2]) >>,
       << Damaged(PeerBlocks[2][1][1]) \o Damaged(PeerBlocks[2][1][2]),
          Damaged(PeerBlocks[2][2][1]) \o Damaged(PeerBlocks[2][2][2]) >> >>

PeerChoices == 1..6

PeerMessage(packet_size, i) == PeerMenu[SizeIx(packet_size)][ModeIx(r_crc_mode = 1)][i]

PeerSingles == {EOT, CAN, JUNK}

PeerToReceiver(msg) ==
    /\ r_pc \notin {"done", "start"}
    /\ p_budget > 0
    /\ Len(r_in) <= MaxPending
    /\ p_budget' = p_budget - 1
    /\ r_in' = r_in \o msg
    /\ UNCHANGED s_in

\* ========================================================================
\* The command handlers and _handle_client (src/spindrift/mock_server.py)
\* ========================================================================
UploadRetry == 10     \* receive_file(file_stream, md5_hash="", retry=10)
DownloadRetry == 10   \* send_file(file_stream, md5_hash, retry=10)

\* The adapters getc and putc of _handle_xmodem_command call
\* loop.run_until_complete from inside the running loop: it raises
\* RuntimeError, which both catch to return None.  putc has written its bytes
\* by then; getc leaves its reader.read(1) behind as a task (reads counts them).

RECURSIVE ReceiveOverAdapters(_, _, _, _, _)
\* receive_file over these adapters: its handshake loop, in which the failed
\* putc of the probe and the failed getc each count an error.
ReceiveOverAdapters(retry, error_count, crc_mode, wire, reads) ==
    IF error_count >= retry
    THEN [result |-> RNone, wire |-> wire \o <<CAN, CAN>>, reads |-> reads]
    ELSE IF crc_mode = 1 /\ error_count < retry \div 2
    THEN ReceiveOverAdapters(retry, error_count + 2, 1, Append(wire, CRC), reads + 1)
    ELSE ReceiveOverAdapters(retry, error_count + 2, 0, Append(wire, NAK), reads + 1)

RECURSIVE SendOverAdapters(_, _, _)
\* send_file over these adapters: its handshake loop sees only timeouts.
SendOverAdapters(retry, error_count, reads) ==
    IF error_count + 1 > retry
    THEN [result |-> "False", wire |-> <<CAN, CAN>>, reads |-> reads + 1]
    ELSE SendOverAdapters(retry, error_count + 1, reads + 1)

\* What a handler does: the lines it answers with, the new cwd, store and
\* clock, the bytes putc wrote and the number of reads getc left behind.
Effect(lines, c) ==
    [lines |-> lines, cwd |-> get_connection_cwd(c), files |-> virtual_files,
     epoch |-> initial_epoch_time, wire |-> <<>>, reads |-> 0]

handle_pwd_command(c) == Effect(<<Line("cwd:", get_connection_cwd(c))>>, c)

handle_cd_command(line, c) ==
    LET new_path == normalize_path(line.arg, c)
    IN  IF directory_exists(new_path)
        THEN [Effect(<<Line("", <<>>)>>, c) EXCEPT !.cwd = new_path]
        ELSE Effect(<<Line("ERROR: Directory not found: ", new_path)>>, c)

handle_rm_command(line, c) ==
    LET file_path == normalize_path(line.arg, c)
    IN  IF file_path \in virtual_files
        THEN [Effect(<<Line("ok", <<>>)>>, c) EXCEPT !.files = virtual_files \ {file_path}]
        ELSE Effect(<<Line("ERROR: File not found: ", file_path)>>, c)

\* _handle_time_command on "time = 5": _set_time(5).
handle_time_command(c) == [Effect(<<Line("", <<>>)>>, c) EXCEPT !.epoch = 5]

\* _add_virtual_file decodes the data as UTF-8; bytes below 128 always decode.
IsUtf8(data) == \A i \in 1..Len(data) : data[i] < 128

\* The MD5 of the files of the model.
Md5Of(data) == Md5Hex(CHOOSE k \in FileIds : FileBytes(k) = data)

\* _add_virtual_file: the entry written (".b64" is appended to the path of
\* data that is not UTF-8; it is kept here as a component of its own).
add_virtual_file(filepath, data, md5_hash) ==
    [path |-> IF IsUtf8(data) THEN filepath ELSE Append(filepath, ".b64"),
     size |-> Len(data), md5 |-> md5_hash]

\* _handle_upload, after receive_file has returned result with data in the
\* stream: the response and the entry added to the store, if any.
UploadReply(result) ==
    IF result = RNone THEN "ERROR: Upload failed"
    ELSE IF result = RInt(-1) THEN "ERROR: Upload canceled"
    ELSE IF result = RInt(0) THEN "Upload canceled - file already exists with same content"
    ELSE ""

UploadEntries(result, filepath, data) ==
    IF result = RNone \/ result = RInt(-1) \/ result = RInt(0) THEN {}
    ELSE {add_virtual_file(filepath, data, Md5Of(data))}

handle_upload(filepath, c) ==
    LET r == ReceiveOverAdapters(UploadRetry, 0, 1, <<>>, 0)
    IN  [Effect(<<Line(UploadReply(r.result), <<>>)>>, c) EXCEPT
            !.files = virtual_files \cup {e.path : e \in UploadEntries(r.result, filepath, <<>>)},
            !.wire = r.wire, !.reads = r.reads]

\* _handle_download that calls send_file without looking the path up.
handle_download_unchecked(filepath, c) ==
    LET r == SendOverAdapters(DownloadRetry, 0, 0)
    IN  [Effect(<<Line("ERROR: Download failed", <<>>)>>, c) EXCEPT
            !.wire = r.wire, !.reads = r.reads]

handle_download(filepath, c) ==
    IF filepath \notin virtual_files
    THEN Effect(<<Line("ERROR: File not found: ", filepath)>>, c)
    ELSE LET r == SendOverAdapters(DownloadRetry, 0, 0)
             response == IF r.result = "None" THEN "ERROR: Download canceled"
                         ELSE IF r.result = "False" THEN "ERROR: Download failed"
                         ELSE ""
         IN  [Effect(<<Line(response, <<>>)>>, c) EXCEPT !.wire = r.wire, !.reads = r.reads]

\* The handler of a known command; version answers from the catalogue.
Handle(line, c) ==
    IF line.key = "pwd" THEN handle_pwd_command(c)
    ELSE IF line.key = "cd" THEN handle_cd_command(line, c)
    ELSE IF line.key = "rm" THEN handle_rm_command(line, c)
    ELSE IF line.key = "time" THEN handle_time_command(c)
    ELSE IF line.key = "upload" THEN handle_upload(normalize_path(line.arg, c), c)
    ELSE IF line.key = "download" THEN handle_download(normalize_path(line.arg, c), c)
    ELSE Effect(<<Line("version = 1.0", <<>>)>>, c)

RECURSIVE OrphanReads(_, _)
\* reads tasks reader.read(1) run against the buffer buf: each takes one
\* byte; left is how many found the buffer empty.
OrphanReads(reads, buf) ==
    IF reads = 0 \/ buf = <<>> THEN [buf |-> buf, left |-> reads]
    ELSE LET head == Head(buf)
         IN  IF reads >= head.bytes THEN OrphanReads(reads - head.bytes, Tail(buf))
             ELSE [buf |-> <<IF head.bytes - reads = 1 THEN BlankLine
                             ELSE Fragment(head.bytes - reads)>> \o Tail(buf),
                   left |-> 0]

\* ------------------------------------------------------------------------
\* _handle_client
\* ------------------------------------------------------------------------
Live == {"readline", "sleep", "drain"}

\* writer.close(): the connection and what passed over it are gone.
CloseWriter(c) ==
    /\ sent' = [sent EXCEPT ![c] = <<>>]
    /\ xm_out' = [xm_out EXCEPT ![c] = <<>>]
    /\ inbuf' = [inbuf EXCEPT ![c] = <<>>]
    /\ waiter' = [waiter EXCEPT ![c] = FALSE]
    /\ nlines' = [nlines EXCEPT ![c] = 0]
    /\ pending' = [pending EXCEPT ![c] = NoResponse]

\* A finally clause that closes the writer and forgets the flag and the cwd.
HandlerFinallyKeepsFlag(c) ==
    /\ CloseWriter(c)
    /\ hpc' = [hpc EXCEPT ![c] = "wait_closed"]
    /\ UNCHANGED <<active_connection, connection_cwd>>

\* The finally clause: clear the flag, drop the cwd entry, close the writer.
HandlerFinally(c) ==
    /\ active_connection' = NoConn
    /\ connection_cwd' = [x \in DOMAIN connection_cwd \ {c} |-> connection_cwd[x]]
    /\ CloseWriter(c)
    /\ hpc' = [hpc EXCEPT ![c] = "wait_closed"]

\* A connection arrives and its handler runs to its first await.
Reject(c) ==
    /\ sent' = [sent EXCEPT ![c] = <<Line(BusyLine, <<>>)>>]
    /\ hpc' = [hpc EXCEPT ![c] = "rej_drain"]
    /\ UNCHANGED <<active_connection, connection_cwd>>

Admit(c) ==
    /\ active_connection' = c
    /\ connection_cwd' = [x \in DOMAIN connection_cwd \cup {c} |->
                             IF x = c THEN Root ELSE connection_cwd[x]]
    /\ sent' = [sent EXCEPT ![c] = <<>>]
    /\ hpc' = [hpc EXCEPT ![c] = "readline"]

\* An accept that does not look at the flag.
ConnectUnchecked(c) ==
    /\ hpc[c] = "closed"
    /\ Admit(c)
    /\ UNCHANGED <<virtual_files, initial_epoch_time, xm_out, inbuf, waiter, nlines, pending>>

Connect(c) ==
    /\ hpc[c] = "closed"
    /\ IF active_connection # NoConn THEN Reject(c) ELSE Admit(c)
    /\ UNCHANGED <<virtual_files, initial_epoch_time, xm_out, inbuf, waiter, nlines, pending>>

\* The rejected handler drains, closes and returns (or is cancelled there).
RejectClose(c) ==
    /\ hpc[c] = "rej_drain"
    /\ hpc' = [hpc EXCEPT ![c] = "closed"]
    /\ CloseWriter(c)
    /\ UNCHANGED <<active_connection, connection_cwd, virtual_files, initial_epoch_time>>

\* The client of an admitted connection sends a line.  A read left waiting by
\* getc is woken by it and takes its first byte.
ClientSend(c, line) ==
    /\ hpc[c] \in Live
    /\ nlines[c] < MaxLines
    /\ nlines' = [nlines EXCEPT ![c] = @ + 1]
    /\ inbuf' = [inbuf EXCEPT ![c] =
                    @ \o OrphanReads(IF waiter[c] THEN 1 ELSE 0, <<line>>).buf]
    /\ waiter' = [waiter EXCEPT ![c] = FALSE]
    /\ UNCHANGED <<active_connection, connection_cwd, virtual_files, initial_epoch_time,
                   hpc, sent, xm_out, pending>>

\* wait_for(reader.read(1), timeout) of a read left waiting times out.
OrphanTimeout(c) ==
    /\ waiter[c]
    /\ waiter' = [waiter EXCEPT ![c] = FALSE]
    /\ UNCHANGED <<active_connection, connection_cwd, virtual_files, initial_epoch_time,
                   hpc, sent, xm_out, inbuf, nlines, pending>>

\* readline() times out after 10 s, returns b"" at EOF, or the task is
\* cancelled or the line does not decode: all leave through finally.
SessionEnd(c) ==
    /\ hpc[c] \in Live
    /\ HandlerFinally(c)
    /\ UNCHANGED <<virtual_files, initial_epoch_time>>

\* readline() while a read left behind by getc is still waiting: StreamReader
\* raises RuntimeError, caught by "except Exception", and the session ends.
ReadCollides(c) ==
    /\ hpc[c] = "readline"
    /\ waiter[c]
    /\ HandlerFinally(c)
    /\ UNCHANGED <<virtual_files, initial_epoch_time>>

ReadBlank(c) ==
    /\ hpc[c] = "readline"
    /\ ~waiter[c]
    /\ inbuf[c] # <<>> /\ Head(inbuf[c]) = BlankLine
    /\ inbuf' = [inbuf EXCEPT ![c] = Tail(@)]
    /\ UNCHANGED <<active_connection, connection_cwd, virtual_files, initial_epoch_time,
                   hpc, sent, xm_out, waiter, nlines, pending>>

\* An unknown command answered with the line and with 'ok' after it.
AnswerUnknownWithOk(c) ==
    /\ sent' = [sent EXCEPT ![c] = @ \o <<Line(UnknownLine, <<>>), OkLine>>]
    /\ hpc' = [hpc EXCEPT ![c] = "drain"]
    /\ UNCHANGED <<connection_cwd, virtual_files, initial_epoch_time, xm_out, waiter, pending>>

\* "cmd_def is None": the response is written at once, without sleep or 'ok'.
AnswerUnknown(c) ==
    /\ sent' = [sent EXCEPT ![c] = Append(@, Line(UnknownLine, <<>>))]
    /\ hpc' = [hpc EXCEPT ![c] = "drain"]
    /\ UNCHANGED <<connection_cwd, virtual_files, initial_epoch_time, xm_out, waiter, pending>>

\* A dispatch that writes the response line before the handler has run.
DispatchRespondsFirst(c, line) ==
    LET effect == Handle(line, c)
        reads == OrphanReads(effect.reads, Tail(inbuf[c]))
    IN  /\ sent' = [sent EXCEPT ![c] = @ \o effect.lines]
        /\ pending' = [pending EXCEPT ![c] = IF SendsOk(line.key) THEN <<OkLine>> ELSE <<>>]
        /\ connection_cwd' = [connection_cwd EXCEPT ![c] = effect.cwd]
        /\ virtual_files' = effect.files
        /\ initial_epoch_time' = effect.epoch
        /\ xm_out' = IF effect.wire = <<>> THEN xm_out
                     ELSE [xm_out EXCEPT ![c] =
                              Append(@, [at |-> Len(sent[c]) + Len(effect.lines),
                                         bytes |-> effect.wire])]
        /\ inbuf' = [inbuf EXCEPT ![c] = reads.buf]
        /\ waiter' = [waiter EXCEPT ![c] = reads.left > 0]
        /\ hpc' = [hpc EXCEPT ![c] = "sleep"]

\* A known command: its handler runs (a transfer runs whole, without an
\* await), then the handler sleeps; the reads getc left behind run first.
Dispatch(c, line) ==
    LET effect == Handle(line, c)
        reads == OrphanReads(effect.reads, Tail(inbuf[c]))
    IN  /\ pending' = [pending EXCEPT ![c] =
                          effect.lines \o (IF SendsOk(line.key) THEN <<OkLine>> ELSE <<>>)]
        /\ connection_cwd' = [connection_cwd EXCEPT ![c] = effect.cwd]
        /\ virtual_files' = effect.files
        /\ initial_epoch_time' = effect.epoch
        /\ xm_out' = IF effect.wire = <<>> THEN xm_out
                     ELSE [xm_out EXCEPT ![c] =
                              Append(@, [at |-> Len(sent[c]), bytes |-> effect.wire])]
        /\ inbuf' = [inbuf EXCEPT ![c] = reads.buf]
        /\ waiter' = [waiter EXCEPT ![c] = reads.left > 0]
        /\ hpc' = [hpc EXCEPT ![c] = "sleep"]
        /\ UNCHANGED sent

ReadCommand(c) ==
    /\ hpc[c] = "readline"
    /\ ~waiter[c]
    /\ inbuf[c] # <<>> /\ Head(inbuf[c]) # BlankLine
    /\ IF Head(inbuf[c]).key \notin KnownKeys
       THEN AnswerUnknown(c) /\ inbuf' = [inbuf EXCEPT ![c] = Tail(@)]
       ELSE Dispatch(c, Head(inbuf[c]))
    /\ UNCHANGED <<active_connection, nlines>>

\* The think-time sleep ends: write the response (and 'ok'), then await drain.
Wake(c) ==
    /\ hpc[c] = "sleep"
    /\ sent' = [sent EXCEPT ![c] = @ \o pending[c]]
    /\ pending' = [pending EXCEPT ![c] = NoResponse]
    /\ hpc' = [hpc EXCEPT ![c] = "drain"]
    /\ UNCHANGED <<active_connection, connection_cwd, virtual_files, initial_epoch_time,
                   xm_out, inbuf, waiter, nlines>>

Drained(c) ==
    /\ hpc[c] = "drain"
    /\ hpc' = [hpc EXCEPT ![c] = "readline"]
    /\ UNCHANGED <<active_connection, connection_cwd, virtual_files, initial_epoch_time,
                   sent, xm_out, inbuf, waiter, nlines, pending>>

WaitClosed(c) ==
    /\ hpc[c] = "wait_closed"
    /\ hpc' = [hpc EXCEPT ![c] = "closed"]
    /\ UNCHANGED <<active_connection, connection_cwd, virtual_files, initial_epoch_time,
                   sent, xm_out, inbuf, waiter, nlines, pending>>

SrvInit ==
    /\ active_connection = NoConn
    /\ connection_cwd = [x \in {} |-> Root]
    /\ virtual_files = InitialFiles
    /\ initial_epoch_time = NoEpoch
    /\ hpc = [c \in Conns |-> "closed"]
    /\ sent = [c \in Conns |-> <<>>]
    /\ xm_out = [c \in Conns |-> <<>>]
    /\ inbuf = [c \in Conns |-> <<>>]
    /\ waiter = [c \in Conns |-> FALSE]
    /\ nlines = [c \in Conns |-> 0]
    /\ pending = [c \in Conns |-> NoResponse]

\* The application sets xmodem.canceled while a transfer is under way.
\* receive_file reads the flag only at the top of its block loop, after the
\* getc of the next header has returned: the flag is set here while that getc
\* waits, which stands for every earlier moment since the last read of it.
UserCancelsReceive ==
    /\ r_pc = "hdr_outer"
    /\ ~r_canceled
    /\ r_canceled' = TRUE
    /\ UNCHANGED <<r_pc, r_result, r_retry, r_md5, r_crc_mode, r_mode, r_error_count,
                   r_cancel, r_sequence, r_retrans, r_md5_received, r_income_size,
                   r_sink, r_wire, r_dropped>>

UserCancelsSend ==
    /\ s_pc # "done"
    /\ ~s_canceled
    /\ s_canceled' = TRUE
    /\ UNCHANGED <<s_pc, s_result, s_retry, s_mode, s_file, s_md5, s_error_count,
                   s_crc_mode, s_cancel, s_sequence, s_md5_sent, s_hs_done, s_reads,
                   s_char, s_wire>>

\* ------------------------------------------------------------------------
\* calc_crc called on its own
\* ------------------------------------------------------------------------
VARIABLES
    crc_data,       \* argument data of calc_crc
    crc_result      \* what the call returned, once it has

crcVars == <<crc_data, crc_result>>

\* Bounds of the inputs of calc_crc: strings of up to MaxCrcLen bytes whose
\* first byte is any byte and whose later bytes are of CrcTailBytes, and the
\* string "hello".
MaxCrcLen == 3
CrcTailBytes == {0, 1, 128, 255}
Hello == <<104, 101, 108, 108, 111>>

RECURSIVE CrcTails(_)
CrcTails(n) ==
    IF n = 0 THEN {<<>>}
    ELSE LET shorter == CrcTails(n - 1)
         IN  shorter \cup { Append(t, b) : t \in { u \in shorter : Len(u) = n - 1 },
                                           b \in CrcTailBytes }

CrcInputs ==
    {<<>>, Hello} \cup { <<b>> \o t : b \in 0..255, t \in CrcTails(MaxCrcLen - 1) }

\* No call of calc_crc under way.
CrcIdle == crc_data = <<>> /\ crc_result = RRunning

\* calc_crc(data) runs and returns.
CalcCrcCall ==
    /\ crc_result = RRunning
    /\ crc_result' = RInt(calc_crc(crc_data))
    /\ UNCHANGED crc_data

\* ------------------------------------------------------------------------
\* _parse_command called on its own
\* ------------------------------------------------------------------------
VARIABLES
    cmd_line,       \* argument command_line of _parse_command, a string
    cmd_parsed      \* what the call returned, once it has

parseVars == <<cmd_line, cmd_parsed>>

\* A string is the sequence of its characters.  The lines tried are all the
\* strings of up to MaxCmdLen characters of CmdChars.
MaxCmdLen == 4
CmdChars == {" ", "g", "G", "m", "M", "1", ".", "?"}
Digits == {"1"}

RECURSIVE CmdStrings(_)
CmdStrings(n) ==
    IF n = 0 THEN {<<>>}
    ELSE LET shorter == CmdStrings(n - 1)
         IN  shorter \cup { Append(t, ch) : t \in { u \in shorter : Len(u) = n - 1 },
                                            ch \in CmdChars }

\* A catalogue of the shape _load_commands returns: four tables, each an
\* ordered list of (key, descriptor); the keys overlap so that more than one
\* table can claim a line.
Entry(key, def) == [key |-> key, def |-> def]

commands ==
    [host_commands    |-> << Entry(<<"?">>, "host ?"), Entry(<<"?", "1">>, "host ?1") >>,
     console_commands |-> << Entry(<<"G", "m">>, "console Gm"),
                             Entry(<<"g", "1">>, "console g1") >>,
     g_codes          |-> << Entry(<<"G", "1">>, "g_code G1"),
                             Entry(<<"G", "1", ".", "1">>, "g_code G1.1") >>,
     m_codes          |-> << Entry(<<"M", "1">>, "m_code M1") >>]

\* What _parse_command returns: (cmd_key, cmd_def) or (None, None).
Found(entry) == [kind |-> "found", key |-> entry.key, def |-> entry.def]
NoneNone == [kind |-> "none", key |-> <<>>, def |-> ""]
NotParsed == [kind |-> "running", key |-> <<>>, def |-> ""]

\* str.upper and str.lower, character by character.
upper(str) ==
    [i \in 1..Len(str) |-> CASE str[i] = "g" -> "G" [] str[i] = "m" -> "M"
                             [] OTHER -> str[i]]
lower(str) ==
    [i \in 1..Len(str) |-> CASE str[i] = "G" -> "g" [] str[i] = "M" -> "m"
                             [] OTHER -> str[i]]

RECURSIVE lstrip(_)
lstrip(str) ==
    IF str # <<>> /\ Head(str) = " " THEN lstrip(Tail(str)) ELSE str

RECURSIVE rstrip(_)
rstrip(str) ==
    IF str # <<>> /\ str[Len(str)] = " " THEN rstrip(SubSeq(str, 1, Len(str) - 1))
    ELSE str

\* str.strip()
strip(str) == rstrip(lstrip(str))

RECURSIVE WordEnd(_, _)
\* The index of the last character of the word that begins at str[1].
WordEnd(str, i) ==
    IF i < Len(str) /\ str[i + 1] # " " THEN WordEnd(str, i + 1) ELSE i

\* str.split()[0] of a string that holds a word, or "" where split() is [].
first_part(str) ==
    LET body == lstrip(str)
    IN  IF body = <<>> THEN <<>> ELSE SubSeq(body, 1, WordEnd(body, 1))

\* command_line.startswith(key) taken as equality.
StartsWithWhole(str, key) == str = key

\* command_line.startswith(key)
startswith(str, key) == Len(key) <= Len(str) /\ SubSeq(str, 1, Len(key)) = key

RECURSIVE DigitRun(_, _)
\* How many digits stand in str from index i on: what "\d+" consumes there.
DigitRun(str, i) ==
    IF i <= Len(str) /\ str[i] \in Digits THEN 1 + DigitRun(str, i + 1) ELSE 0

\* re.match(r"^(L\d+(?:\.\d+)?)", str).group(1) for the letter L, or "" where
\* there is no match.
re_match(letter, str) ==
    IF str = <<>> \/ str[1] # letter THEN <<>>
    ELSE LET d1 == DigitRun(str, 2)
             e == 1 + d1
             d2 == IF e + 1 <= Len(str) /\ str[e + 1] = "." THEN DigitRun(str, e + 2)
                                                            ELSE 0
         IN  IF d1 = 0 THEN <<>>
             ELSE SubSeq(str, 1, IF d2 > 0 THEN e + 1 + d2 ELSE e)

RECURSIVE FindHost(_, _)
\* The first host command, from entry i on, whose key the line begins with.
FindHost(str, i) ==
    IF i > Len(commands.host_commands) THEN 0
    ELSE IF startswith(str, commands.host_commands[i].key) THEN i
    ELSE FindHost(str, i + 1)

RECURSIVE FindConsole(_, _)
\* The first console command, from entry i on, whose key in lower case is
\* base_cmd.
FindConsole(base_cmd, i) ==
    IF i > Len(commands.console_commands) THEN 0
    ELSE IF lower(commands.console_commands[i].key) = base_cmd THEN i
    ELSE FindConsole(base_cmd, i + 1)

RECURSIVE FindCode(_, _, _)
\* "code in table": the entry of table with that key, or 0.
FindCode(table, code, i) ==
    IF i > Len(table) THEN 0
    ELSE IF table[i].key = code THEN i
    ELSE FindCode(table, code, i + 1)

\* A router that looks for G-codes and M-codes before console commands.
ParseCodesFirst(command_line) ==
    LET str == strip(command_line)
        host == FindHost(str, 1)
        base_cmd == lower(first_part(str))
        console == IF base_cmd = <<>> THEN 0 ELSE FindConsole(base_cmd, 1)
        g_code == re_match("G", upper(str))
        g == IF g_code = <<>> THEN 0 ELSE FindCode(commands.g_codes, g_code, 1)
        m_code == re_match("M", upper(str))
        m == IF m_code = <<>> THEN 0 ELSE FindCode(commands.m_codes, m_code, 1)
    IN  IF host > 0 THEN Found(commands.host_commands[host])
        ELSE IF g > 0 THEN Found(commands.g_codes[g])
        ELSE IF m > 0 THEN Found(commands.m_codes[m])
        ELSE IF console > 0 THEN Found(commands.console_commands[console])
        ELSE NoneNone

\* _parse_command
parse_command(command_line) ==
    LET str == strip(command_line)
        host == FindHost(str, 1)
        base_cmd == lower(first_part(str))
        console == IF base_cmd = <<>> THEN 0 ELSE FindConsole(base_cmd, 1)
        g_code == re_match("G", upper(str))
        g == IF g_code = <<>> THEN 0 ELSE FindCode(commands.g_codes, g_code, 1)
        m_code == re_match("M", upper(str))
        m == IF m_code = <<>> THEN 0 ELSE FindCode(commands.m_codes, m_code, 1)
    IN  IF host > 0 THEN Found(commands.host_commands[host])
        ELSE IF console > 0 THEN Found(commands.console_commands[console])
        ELSE IF g > 0 THEN Found(commands.g_codes[g])
        ELSE IF m > 0 THEN Found(commands.m_codes[m])
        ELSE NoneNone

\* No call of _parse_command under way.
ParseIdle == cmd_line = <<>> /\ cmd_parsed = NotParsed

\* _parse_command(command_line) runs and returns.
ParseCommandCall ==
    /\ cmd_parsed = NotParsed
    /\ cmd_parsed' = parse_command(cmd_line)
    /\ UNCHANGED cmd_line

\* ------------------------------------------------------------------------
\* _handle_time_command called on its own, and the wall clock
\* ------------------------------------------------------------------------
VARIABLES
    clk_initialized,    \* self._time_initialized
    clk_epoch,          \* self._initial_epoch_time, a float or None
    clk_at_init,        \* self._system_time_at_init, or None
    clk_now,            \* time.time(), in seconds since the server started
    clk_line,           \* the line last handled
    clk_reply,          \* what the handler returned for it, or that it raised
    clk_calls           \* how many lines have been handled

clockVars == <<clk_initialized, clk_epoch, clk_at_init, clk_now, clk_line, clk_reply,
               clk_calls>>

MaxNow == 2         \* seconds the wall clock advances
MaxClockCalls == 3  \* time commands handled

\* A float: a number (sign, and magnitude e9 * 10^9 + val), nan or inf; None
\* and the ValueError of float() are kept beside them.
Num(neg, e9, val) == [kind |-> "num", neg |-> neg, e9 |-> e9, val |-> val]
NaN == [kind |-> "nan", neg |-> FALSE, e9 |-> 0, val |-> 0]
Inf == [kind |-> "inf", neg |-> FALSE, e9 |-> 0, val |-> 0]
NoFloat == [kind |-> "None", neg |-> FALSE, e9 |-> 0, val |-> 0]
FloatError == [kind |-> "ValueError", neg |-> FALSE, e9 |-> 0, val |-> 0]
NoTime == NoEpoch

\* float(time_str) for the texts tried.
float(time_str) ==
    CASE time_str = "0" -> Num(FALSE, 0, 0)
      [] time_str = "5" -> Num(FALSE, 0, 5)
      [] time_str = "7" -> Num(FALSE, 0, 7)
      [] time_str = "-1" -> Num(TRUE, 0, 1)
      [] time_str = "2147483647" -> Num(FALSE, 2, 147483647)
      [] time_str = "2147483648" -> Num(FALSE, 2, 147483648)
      [] time_str = "nan" -> NaN
      [] time_str = "inf" -> Inf
      [] OTHER -> FloatError

\* "a < b" and "a > b" on floats: every comparison with nan is false.
FloatLess(a, b) ==
    /\ a.kind = "num" /\ b.kind = "num"
    /\ IF a.neg THEN (a.e9 > 0 \/ a.val > 0) /\ ~b.neg
       ELSE ~b.neg /\ (a.e9 < b.e9 \/ (a.e9 = b.e9 /\ a.val < b.val))
FloatGreater(a, b) ==
    \/ a.kind = "inf" /\ b.kind = "num"
    \/ FloatLess(b, a)

\* The time lines tried: the query "time", "time = <text>" for each text, and
\* "time = 1 = 2"; eqs is the number of "=" in the line.
TimeLine(eqs, text) == [eqs |-> eqs, text |-> text]
TimeQuery == TimeLine(0, "")
TimeTexts == {"0", "5", "7", "-1", "2147483647", "2147483648", "nan", "inf", "x", ""}
TimeLines == {TimeQuery, TimeLine(2, "1")} \cup { TimeLine(1, t) : t \in TimeTexts }

\* What _handle_time_command gives back: a response line, the response
\* str(int(current_time)), or an exception that leaves the handler.
Response(text) == [kind |-> "line", text |-> text, num |-> NoFloat]
IntResponse(num) == [kind |-> "int", text |-> "", num |-> num]
Raises(text) == [kind |-> "raises", text |-> text, num |-> NoFloat]
NoReply == [kind |-> "None", text |-> "", num |-> NoFloat]

\* A range check that also refuses what is not a number.
RangeCheckStrict(epoch_time) ==
    \/ epoch_time.kind # "num"
    \/ FloatLess(epoch_time, Num(FALSE, 0, 0))
    \/ FloatGreater(epoch_time, Num(FALSE, 2, 147483647))

\* "epoch_time < 0 or epoch_time > 2147483647"
RangeCheck(epoch_time) ==
    \/ FloatLess(epoch_time, Num(FALSE, 0, 0))
    \/ FloatGreater(epoch_time, Num(FALSE, 2, 147483647))

\* _set_time: False, or the three fields set.
set_time(epoch_time) ==
    IF RangeCheck(epoch_time)
    THEN /\ UNCHANGED <<clk_initialized, clk_epoch, clk_at_init>>
         /\ clk_reply' = Response("ERROR: Invalid time value")
    ELSE /\ clk_epoch' = epoch_time
         /\ clk_at_init' = clk_now
         /\ clk_initialized' = TRUE
         /\ clk_reply' = Response("")

\* _get_current_time: None, or _initial_epoch_time + elapsed_time.
get_current_time ==
    IF ~clk_initialized \/ clk_epoch = NoFloat \/ clk_at_init = NoTime THEN NoFloat
    ELSE LET elapsed_time == clk_now - clk_at_init
         IN  IF clk_epoch.kind = "num"
             THEN Num(FALSE, clk_epoch.e9 + (clk_epoch.val + elapsed_time) \div 1000000000,
                      (clk_epoch.val + elapsed_time) % 1000000000)
             ELSE clk_epoch

\* _handle_time_command on a line.
TimeCommandCall(line) ==
    /\ clk_calls < MaxClockCalls
    /\ clk_calls' = clk_calls + 1
    /\ clk_line' = line
    /\ UNCHANGED clk_now
    /\ IF line.eqs > 0
       THEN IF line.eqs = 1 /\ float(line.text) # FloatError
            THEN set_time(float(line.text))
            ELSE /\ clk_reply' = Response("ERROR: Invalid time format")
                 /\ UNCHANGED <<clk_initialized, clk_epoch, clk_at_init>>
       ELSE /\ UNCHANGED <<clk_initialized, clk_epoch, clk_at_init>>
            /\ LET current_time == get_current_time
               IN  clk_reply' = IF current_time = NoFloat
                                THEN Response("ERROR: Time not initialized")
                                ELSE IF current_time.kind = "num"
                                THEN IntResponse(current_time)
                                ELSE Raises("ValueError")

\* The wall clock advances.
Tick ==
    /\ clk_now < MaxNow
    /\ clk_now' = clk_now + 1
    /\ UNCHANGED <<clk_initialized, clk_epoch, clk_at_init, clk_line, clk_reply, clk_calls>>

\* The clock of a server just constructed.
ClockInit ==
    /\ clk_initialized = FALSE
    /\ clk_epoch = NoFloat
    /\ clk_at_init = NoTime
    /\ clk_now = 0
    /\ clk_line = TimeQuery
    /\ clk_reply = NoReply
    /\ clk_calls = 0

\* ------------------------------------------------------------------------
\* _handle_rm_command and _handle_mv_command on the store with its entries
\* ------------------------------------------------------------------------
VARIABLES
    fs_store,       \* self.virtual_files: path -> file_info
    fs_cmd,         \* the command last handled: its key and its path arguments
    fs_reply,       \* the response line it returned
    fs_calls        \* how many commands have been handled

storeVars == <<fs_store, fs_cmd, fs_reply, fs_calls>>

MaxFsCalls == 3     \* rm and mv commands handled

\* An entry of virtual_files.
FileInfo(path, size, md5, contents) ==
    [path |-> path, size |-> size, md5 |-> md5, contents |-> contents]

\* The entries the server starts with: InitialFiles with their fields.
InitialStore ==
    [f \in InitialFiles |->
        IF f = <<"foo", "a.nc">>
        THEN FileInfo(f, Len(FileBytes(1)), Md5Hex(1), FileBytes(1))
        ELSE FileInfo(f, Len(FileBytes(0)), Md5Hex(0), FileBytes(0))]

\* The path arguments tried: two stored files, a path that is not stored and
\* a relative spelling of the first.
FsArgs ==
    { [lead |-> 1, segs |-> <<"foo", "a.nc">>],
      [lead |-> 1, segs |-> <<"bar", "b.nc">>],
      [lead |-> 1, segs |-> <<"foo", "c.nc">>],
      [lead |-> 0, segs |-> <<"foo", ".", "a.nc">>] }

FsCmd(key, source, dest) == [key |-> key, source |-> source, dest |-> dest]

\* "del store[path]"
Without(store, path) == [q \in DOMAIN store \ {path} |-> store[q]]

\* "store[path] = info"
With(store, path, info) ==
    [q \in DOMAIN store \cup {path} |-> IF q = path THEN info ELSE store[q]]

\* A move that stores the entry under dest before it deletes the source.
MoveDeletesLast(store, source_path, dest_path) ==
    Without(With(store, dest_path, [store[source_path] EXCEPT !.path = dest_path]),
            source_path)

\* The move of _handle_mv_command: copy the entry, set its path, delete the
\* source, store the copy under dest.
Move(store, source_path, dest_path) ==
    LET file_info == [store[source_path] EXCEPT !.path = dest_path]
    IN  With(Without(store, source_path), dest_path, file_info)

\* _handle_mv_command on "mv source dest", for the connection c.
MvCommandCall(source, dest, c) ==
    LET source_path == normalize_path(source, c)
        dest_path == normalize_path(dest, c)
    IN  /\ fs_calls < MaxFsCalls
        /\ fs_calls' = fs_calls + 1
        /\ fs_cmd' = FsCmd("mv", source, dest)
        /\ IF source_path \notin DOMAIN fs_store
           THEN /\ fs_reply' = Line("ERROR: Source file not found: ", source_path)
                /\ UNCHANGED fs_store
           ELSE /\ fs_store' = Move(fs_store, source_path, dest_path)
                /\ fs_reply' = Line("ok", <<>>)

\* _handle_rm_command on "rm path", for the connection c.
RmCommandCall(path, c) ==
    LET file_path == normalize_path(path, c)
    IN  /\ fs_calls < MaxFsCalls
        /\ fs_calls' = fs_calls + 1
        /\ fs_cmd' = FsCmd("rm", path, NoArg)
        /\ IF file_path \notin DOMAIN fs_store
           THEN /\ fs_reply' = Line("ERROR: File not found: ", file_path)
                /\ UNCHANGED fs_store
           ELSE /\ fs_store' = Without(fs_store, file_path)
                /\ fs_reply' = Line("ok", <<>>)

\* The store of a server just constructed.
StoreInit ==
    /\ fs_store = InitialStore
    /\ fs_cmd = FsCmd("", NoArg, NoArg)
    /\ fs_reply = Line("", <<>>)
    /\ fs_calls = 0

vars == <<srvVars, world, chanVars, sendVars, recvVars, crcVars, parseVars, clockVars,
          storeVars>>

\* ------------------------------------------------------------------------
\* The specifications
\* ------------------------------------------------------------------------
Init ==
    /\ world = "srv"
    /\ SrvInit
    /\ CrcIdle
    /\ ParseIdle
    /\ ClockInit
    /\ StoreInit
    /\ SendIdle
    /\ RecvIdle
    /\ s_in = <<>> /\ r_in = <<>> /\ p_budget = 0

Next ==
    \E c \in Conns :
        \/ Connect(c) /\ UNCHANGED <<storeVars, clockVars, parseVars, crcVars, world, chanVars, sendVars, recvVars>>
        \/ RejectClose(c) /\ UNCHANGED <<storeVars, clockVars, parseVars, crcVars, world, chanVars, sendVars, recvVars>>
        \/ SessionEnd(c) /\ UNCHANGED <<storeVars, clockVars, parseVars, crcVars, world, chanVars, sendVars, recvVars>>
        \/ \E line \in CommandLines \cup {BlankLine} :
               ClientSend(c, line) /\ UNCHANGED <<storeVars, clockVars, parseVars, crcVars, world, chanVars, sendVars, recvVars>>
        \/ OrphanTimeout(c) /\ UNCHANGED <<storeVars, clockVars, parseVars, crcVars, world, chanVars, sendVars, recvVars>>
        \/ ReadCollides(c) /\ UNCHANGED <<storeVars, clockVars, parseVars, crcVars, world, chanVars, sendVars, recvVars>>
        \/ ReadBlank(c) /\ UNCHANGED <<storeVars, clockVars, parseVars, crcVars, world, chanVars, sendVars, recvVars>>
        \/ ReadCommand(c) /\ UNCHANGED <<storeVars, clockVars, parseVars, crcVars, world, chanVars, sendVars, recvVars>>
        \/ Wake(c) /\ UNCHANGED <<storeVars, clockVars, parseVars, crcVars, world, chanVars, sendVars, recvVars>>
        \/ Drained(c) /\ UNCHANGED <<storeVars, clockVars, parseVars, crcVars, world, chanVars, sendVars, recvVars>>
        \/ WaitClosed(c) /\ UNCHANGED <<storeVars, clockVars, parseVars, crcVars, world, chanVars, sendVars, recvVars>>

Spec == Init /\ [][Next]_vars

\* send_file against an arbitrary peer.
InitSend ==
    /\ world = "send"
    /\ SrvInit
    /\ CrcIdle
    /\ ParseIdle
    /\ ClockInit
    /\ StoreInit
    /\ SendCalled
    /\ RecvIdle
    /\ s_in = <<>> /\ r_in = <<>> /\ p_budget = MaxPeerBytes

NextSend ==
    \/ SendHandshake /\ UNCHANGED <<storeVars, clockVars, parseVars, crcVars, world, srvVars, recvVars, p_budget>>
    \/ SendEot /\ UNCHANGED <<storeVars, clockVars, parseVars, crcVars, world, srvVars, recvVars, p_budget>>
    \/ UserCancelsSend /\ UNCHANGED <<storeVars, clockVars, parseVars, crcVars, world, srvVars, chanVars, recvVars>>
    \/ \E b \in PeerBytes : PeerToSender(b) /\ UNCHANGED <<storeVars, clockVars, parseVars, crcVars, world, srvVars, sendVars, recvVars>>

SpecSend == InitSend /\ [][NextSend]_vars

\* A step of send_file: every getc returns, with a byte or with None when its
\* timeout has passed, so a send that has not returned takes its next step.
SendStep ==
    (SendHandshake \/ SendEot)
        /\ UNCHANGED <<storeVars, clockVars, parseVars, crcVars, world, srvVars, recvVars, p_budget>>

\* send_file that keeps running, against a peer that may fall silent.
SpecSendFair == SpecSend /\ WF_vars(SendStep)

\* receive_file against an arbitrary peer.
InitRecv ==
    /\ world = "recv"
    /\ SrvInit
    /\ CrcIdle
    /\ ParseIdle
    /\ ClockInit
    /\ StoreInit
    /\ SendIdle
    /\ RecvCalled
    /\ s_in = <<>> /\ r_in = <<>> /\ p_budget = MaxPeerMsgs

NextRecv ==
    \/ RecvStart /\ UNCHANGED <<storeVars, clockVars, parseVars, crcVars, world, srvVars, sendVars, p_budget>>
    \/ RecvHandshake /\ UNCHANGED <<storeVars, clockVars, parseVars, crcVars, world, srvVars, sendVars, p_budget>>
    \/ RecvHeader /\ UNCHANGED <<storeVars, clockVars, parseVars, crcVars, world, srvVars, sendVars, p_budget>>
    \/ RecvBlock /\ UNCHANGED <<storeVars, clockVars, parseVars, crcVars, world, srvVars, sendVars, p_budget>>
    \/ UserCancelsReceive /\ UNCHANGED <<storeVars, clockVars, parseVars, crcVars, world, srvVars, chanVars, sendVars>>
    \/ \E p \in PeerSizes, i \in PeerChoices :
           PeerToReceiver(PeerMessage(p, i))
               /\ UNCHANGED <<storeVars, clockVars, parseVars, crcVars, world, srvVars, sendVars, recvVars>>
    \/ \E b \in PeerSingles :
           PeerToReceiver(<<b>>) /\ UNCHANGED <<storeVars, clockVars, parseVars, crcVars, world, srvVars, sendVars, recvVars>>

SpecRecv == InitRecv /\ [][NextRecv]_vars

\* A step of receive_file: every getc returns, with bytes or with None when
\* its timeout has passed.
RecvStep ==
    (RecvStart \/ RecvHandshake \/ RecvHeader \/ RecvBlock)
        /\ UNCHANGED <<storeVars, clockVars, parseVars, crcVars, world, srvVars, sendVars, p_budget>>

\* receive_file that keeps running, against a peer that may fall silent.
SpecRecvFair == SpecRecv /\ WF_vars(RecvStep)

\* A byte in flight to an engine that is still running is lost.
LoseByte ==
    /\ p_budget > 0
    /\ p_budget' = p_budget - 1
    /\ \/ s_pc # "done" /\ s_in # <<>> /\ s_in' = Tail(s_in) /\ UNCHANGED r_in
       \/ r_pc # "done" /\ r_in # <<>> /\ r_in' = Tail(r_in) /\ UNCHANGED s_in

\* send_file and receive_file joined by two FIFO channels that lose at most
\* MaxLost bytes, neither cancelled by its user.  receive_file leaves its
\* handshake when it reads SOH or STX; send_file puts neither on the channel
\* (XferNoHeader), so the receiver's steps in this system are RecvStart and
\* RecvHandshake.
InitXfer ==
    /\ world = "xfer"
    /\ SrvInit
    /\ CrcIdle
    /\ ParseIdle
    /\ ClockInit
    /\ StoreInit
    /\ SendCalled
    /\ ~s_canceled
    /\ RecvCalled
    /\ ~r_canceled
    /\ s_in = <<>> /\ r_in = <<>> /\ p_budget = MaxLost

NextXfer ==
    \/ SendHandshake /\ UNCHANGED <<storeVars, clockVars, parseVars, crcVars, world, srvVars, recvVars, p_budget>>
    \/ SendEot /\ UNCHANGED <<storeVars, clockVars, parseVars, crcVars, world, srvVars, recvVars, p_budget>>
    \/ RecvStart /\ UNCHANGED <<storeVars, clockVars, parseVars, crcVars, world, srvVars, sendVars, p_budget>>
    \/ RecvHandshake /\ UNCHANGED <<storeVars, clockVars, parseVars, crcVars, world, srvVars, sendVars, p_budget>>
    \/ LoseByte /\ UNCHANGED <<storeVars, clockVars, parseVars, crcVars, world, srvVars, sendVars, recvVars>>

SpecXfer == InitXfer /\ [][NextXfer]_vars

\* send_file and receive_file joined by two FIFO channels that lose nothing,
\* each started and scheduled on its own: a getc of the receiver may time out
\* while the probe it wrote is still queued for a sender that has not read
\* yet.
InitLate ==
    /\ world = "late"
    /\ SrvInit
    /\ CrcIdle
    /\ ParseIdle
    /\ ClockInit
    /\ StoreInit
    /\ SendCalled
    /\ ~s_canceled
    /\ RecvCalled
    /\ ~r_canceled
    /\ s_in = <<>> /\ r_in = <<>> /\ p_budget = 0

NextLate ==
    \/ SendHandshake /\ UNCHANGED <<storeVars, clockVars, parseVars, crcVars, world, srvVars, recvVars, p_budget>>
    \/ SendEot /\ UNCHANGED <<storeVars, clockVars, parseVars, crcVars, world, srvVars, recvVars, p_budget>>
    \/ RecvStart /\ UNCHANGED <<storeVars, clockVars, parseVars, crcVars, world, srvVars, sendVars, p_budget>>
    \/ RecvHandshake /\ UNCHANGED <<storeVars, clockVars, parseVars, crcVars, world, srvVars, sendVars, p_budget>>

SpecLate == InitLate /\ [][NextLate]_vars

\* calc_crc on each of its inputs.
InitCrc ==
    /\ world = "crc"
    /\ SrvInit
    /\ SendIdle
    /\ RecvIdle
    /\ s_in = <<>> /\ r_in = <<>> /\ p_budget = 0
    /\ crc_data \in CrcInputs
    /\ crc_result = RRunning
    /\ ParseIdle
    /\ ClockInit
    /\ StoreInit

NextCrc ==
    CalcCrcCall /\ UNCHANGED <<storeVars, clockVars, parseVars, world, srvVars, chanVars, sendVars, recvVars>>

SpecCrc == InitCrc /\ [][NextCrc]_vars

\* _parse_command on each of its inputs.
InitParse ==
    /\ world = "parse"
    /\ SrvInit
    /\ CrcIdle
    /\ SendIdle
    /\ RecvIdle
    /\ s_in = <<>> /\ r_in = <<>> /\ p_budget = 0
    /\ cmd_line \in CmdStrings(MaxCmdLen)
    /\ cmd_parsed = NotParsed
    /\ ClockInit
    /\ StoreInit

NextParse ==
    ParseCommandCall /\ UNCHANGED <<storeVars, clockVars, crcVars, world, srvVars, chanVars, sendVars, recvVars>>

SpecParse == InitParse /\ [][NextParse]_vars

\* The time command on a server whose wall clock advances.
InitClock ==
    /\ world = "clock"
    /\ SrvInit
    /\ CrcIdle
    /\ ParseIdle
    /\ ClockInit
    /\ StoreInit
    /\ SendIdle
    /\ RecvIdle
    /\ s_in = <<>> /\ r_in = <<>> /\ p_budget = 0

NextClock ==
    \/ \E line \in TimeLines :
           TimeCommandCall(line)
               /\ UNCHANGED <<storeVars, parseVars, crcVars, world, srvVars, chanVars, sendVars,
                             recvVars>>
    \/ Tick /\ UNCHANGED <<storeVars, parseVars, crcVars, world, srvVars, chanVars, sendVars,
                             recvVars>>

SpecClock == InitClock /\ [][NextClock]_vars

\* rm and mv commands of one session (its cwd is "/") on the store.
InitStore ==
    /\ world = "store"
    /\ SrvInit
    /\ CrcIdle
    /\ ParseIdle
    /\ ClockInit
    /\ StoreInit
    /\ SendIdle
    /\ RecvIdle
    /\ s_in = <<>> /\ r_in = <<>> /\ p_budget = 0

NextStore ==
    \/ \E source \in FsArgs, dest \in FsArgs :
           MvCommandCall(source, dest, 1)
               /\ UNCHANGED <<clockVars, parseVars, crcVars, world, srvVars, chanVars,
                              sendVars, recvVars>>
    \/ \E path \in FsArgs :
           RmCommandCall(path, 1)
               /\ UNCHANGED <<clockVars, parseVars, crcVars, world, srvVars, chanVars,
                              sendVars, recvVars>>

SpecStore == InitStore /\ [][NextStore]_vars

\* ------------------------------------------------------------------------
\* Properties of the connection handlers
\* ------------------------------------------------------------------------
LiveConns == { c \in Conns : hpc[c] \in Live }

\* C1: in every interleaving of the handlers at most one connection is the
\* active session, and it is the one the flag names; a connection that arrives
\* while a session is active is written the busy line and closed: it never
\* becomes active, never clears the flag and never alters any cwd.
C1_SingleActiveSession ==
    /\ [](/\ Cardinality(LiveConns) <= 1
          /\ \A c \in LiveConns : active_connection = c
          /\ \A c \in Conns : hpc[c] = "rej_drain" => sent[c] = <<Line(BusyLine, <<>>)>>)
    /\ [][\A c \in Conns :
            /\ (hpc[c] = "closed" /\ active_connection # NoConn /\ hpc'[c] # hpc[c])
                   => /\ hpc'[c] = "rej_drain"
                      /\ UNCHANGED <<active_connection, connection_cwd>>
            /\ (hpc[c] = "rej_drain" /\ hpc'[c] # hpc[c])
                   => /\ hpc'[c] = "closed"
                      /\ UNCHANGED <<active_connection, connection_cwd>>]_vars

\* C1 witness: a session that has changed its cwd is active while another
\* connection has been written the busy line.
C1_Witness ==
    \E c, d \in Conns :
        /\ hpc[c] \in Live /\ connection_cwd[c] # Root
        /\ hpc[d] = "rej_drain" /\ sent[d] = <<Line(BusyLine, <<>>)>>

\* C2: whenever the active session ends, the flag is cleared and its cwd
\* entry dropped; the server is never busy without a live session, the next
\* connection is admitted and starts with cwd "/".
C2_SessionEndReleases ==
    /\ [](/\ active_connection # NoConn => hpc[active_connection] \in Live
          /\ DOMAIN connection_cwd = LiveConns)
    /\ [][\A c \in Conns :
            /\ (hpc[c] \in Live /\ hpc'[c] \notin Live)
                   => (active_connection' = NoConn /\ c \notin DOMAIN connection_cwd')
            /\ (hpc[c] = "closed" /\ active_connection = NoConn /\ hpc'[c] # hpc[c])
                   => /\ hpc'[c] = "readline"
                      /\ active_connection' = c
                      /\ connection_cwd'[c] = Root]_vars

\* C2 witness: one session has ended (its handler is closing) after a cd and
\* the next connection has been admitted with cwd "/".
C2_Witness ==
    \E c, d \in Conns :
        /\ hpc[c] = "wait_closed"
        /\ hpc[d] = "readline" /\ active_connection = d /\ connection_cwd[d] = Root

\* C12: on a session that stays open, the lines the client sent reach the
\* command loop as sent and one at a time: input is consumed only by the
\* loop's readline, which takes the line at the head and nothing behind it,
\* and a non-empty line so taken has its response pending or written before
\* the next is read.
C12_OneResponsePerLine ==
    /\ [](\A c \in Conns : \A i \in 1..Len(inbuf[c]) :
             inbuf[c][i] \in CommandLines \cup {BlankLine})
    /\ [][\A c \in Conns :
            (hpc[c] \in Live /\ hpc'[c] \in Live /\ inbuf[c] # <<>>
                 /\ ~IsPrefix(inbuf[c], inbuf'[c]))
               => /\ hpc[c] = "readline"
                  /\ inbuf'[c] = Tail(inbuf[c])
                  /\ Head(inbuf[c]) # BlankLine
                         => (pending'[c] # NoResponse \/ Len(sent'[c]) = Len(sent[c]) + 1)]_vars

\* C13: when the command loop reads a line that is no command of the
\* catalogue, it writes "ERROR: Unknown command" and nothing else (no 'ok', no
\* sleep), the connection stays the active one, and cwd, clock and store are
\* as before; from the drain that follows the handler goes back to readline
\* without writing anything more.
C13_UnknownCommandAnswered ==
    [][\A c \in Conns :
         /\ (/\ hpc[c] = "readline" /\ hpc'[c] \in Live
             /\ Len(inbuf'[c]) < Len(inbuf[c])
             /\ Head(inbuf[c]).key \notin KnownKeys \cup {""})
                => /\ sent'[c] = Append(sent[c], Line(UnknownLine, <<>>))
                   /\ pending'[c] = NoResponse
                   /\ hpc'[c] = "drain"
                   /\ inbuf'[c] = Tail(inbuf[c])
                   /\ active_connection' = c
                   /\ UNCHANGED <<connection_cwd, initial_epoch_time, virtual_files>>
         /\ (hpc[c] = "drain" /\ hpc'[c] \in Live /\ hpc'[c] # "drain")
                => (hpc'[c] = "readline" /\ sent'[c] = sent[c])]_vars

\* C13 witness: an unknown line was answered, and the line after it was read
\* and answered on the same session, which waits for the next.
C13_Witness ==
    \E c \in Conns :
        /\ hpc[c] = "readline" /\ active_connection = c
        /\ sent[c] = <<Line(UnknownLine, <<>>), Line("cwd:", Root)>>

\* The command loop of c reads the line at the head of its input.
ReadsHead(c) ==
    /\ hpc[c] = "readline" /\ hpc'[c] \in Live
    /\ Len(inbuf'[c]) < Len(inbuf[c])

\* C14: a download of a path that is not in the store is answered with
\* "ERROR: File not found: <path>" and nothing of XMODEM happens: putc writes
\* no byte, getc takes no byte of the input and leaves no read behind, the
\* store is unchanged, and the handler goes through its sleep and drain back
\* to readline on the same session.
C14_MissingFileNoXmodem ==
    [][\A c \in Conns :
         (/\ ReadsHead(c)
          /\ Head(inbuf[c]).key = "download"
          /\ normalize_path(Head(inbuf[c]).arg, c) \notin virtual_files)
             => /\ pending'[c] = <<Line("ERROR: File not found: ",
                                        normalize_path(Head(inbuf[c]).arg, c))>>
                /\ xm_out'[c] = xm_out[c]
                /\ sent'[c] = sent[c]
                /\ inbuf'[c] = Tail(inbuf[c])
                /\ ~waiter'[c]
                /\ hpc'[c] = "sleep"
                /\ active_connection' = c
                /\ UNCHANGED <<virtual_files, connection_cwd>>]_vars

\* C14 witness: after an rm of the file, the download of it was answered with
\* the error line, no byte of XMODEM was written and the session reads on.
C14_Witness ==
    \E c \in Conns :
        /\ hpc[c] = "readline" /\ active_connection = c
        /\ sent[c] = <<Line("ok", <<>>), Line("ERROR: File not found: ", <<"foo", "a.nc">>)>>
        /\ xm_out[c] = <<>> /\ ~waiter[c]

\* A path in which separators, "." and ".." are all collapsed: no component
\* is empty (the mark of a doubled leading slash), "." or "..".
Collapsed(path) == \A i \in 1..Len(path) : path[i] \notin {"", ".", ".."}

\* C19: after any sequence of commands the cwd of a session is an absolute
\* path with repeated separators, "." and ".." collapsed, it names a
\* directory of the store or the root, and every path that pwd has answered
\* is such a path as well; a cd that answers "ERROR: Directory not found"
\* or any other command leaves the cwd as it was.
C19_CwdNormalised ==
    \A c \in DOMAIN connection_cwd :
        /\ Collapsed(connection_cwd[c])
        /\ \A i \in 1..Len(sent[c]) :
              sent[c][i].text = "cwd:" => Collapsed(sent[c][i].path)

\* The lines of responses that answer an upload or a download.
TransferReplies ==
    { Line(t, <<>>) : t \in {"ERROR: Upload failed", "ERROR: Upload canceled",
                             "Upload canceled - file already exists with same content",
                             "ERROR: Download failed", "ERROR: Download canceled", ""} }

SentBlocks == SelectSeq(s_wire, LAMBDA w : Len(w) > 1)

\* w is a block with seq 0 whose payload is the digest passed to send_file.
IsMd5Block(w) ==
    LET is_stx == IsStx(PacketSize(s_mode))
    IN  /\ Len(w) = 3 + 1 + is_stx + PacketSize(s_mode) + (IF s_crc_mode THEN 2 ELSE 1)
        /\ w[2] = 0 /\ w[3] = 255
        /\ (IF is_stx = 1 THEN w[4] * 256 + w[5] ELSE w[4]) = 32
        /\ SubSeq(w, 5 + is_stx, 36 + is_stx) = s_md5

\* A send that got its handshake byte, was given a digest and was not
\* cancelled by its user.
SendUnderWay == s_hs_done /\ Len(s_md5) = 32 /\ s_result # "None"

\* In the joined system no block header is ever on its way to the receiver,
\* so receive_file never leaves its handshake there.
XferNoHeader ==
    /\ \A i \in 1..Len(r_in) : r_in[i] \notin {SOH, STX}
    /\ r_pc \in {"start", "hs_read", "done"}

\* C3: over channels that lose nothing, a send of F to a receiver expecting
\* another digest ends on both sides with the sender's True, the sink holding
\* exactly F and the receiver returning len(F).
C3_RoundTrip ==
    (s_pc = "done" /\ r_pc = "done" /\ Len(s_md5) = 32 /\ r_retry >= 1
         /\ r_md5 # s_md5 /\ p_budget = MaxLost)
        => /\ s_result = "True"
           /\ r_sink = FileBytes(s_file)
           /\ r_result = RInt(Len(FileBytes(s_file)))

\* A block is behind the header just read and its sequence bytes do not name
\* the expected block.
BadSeqAtHead ==
    /\ r_pc = "blk_read"
    /\ Len(r_in) >= 2
    /\ ~(r_in[1] = r_sequence /\ r_in[2] = 255 - r_sequence)

\* The sound block with the expected sequence is behind the header just read.
ExpectedBlockAtHead ==
    /\ r_pc = "blk_read"
    /\ r_sequence \in {0, 1}
    /\ LET block == PeerBlocks[SizeIx(PacketSize(r_mode))][ModeIx(r_crc_mode = 1)]
                              [r_sequence + 1]
       IN  Take(r_in, Len(block) - 1) = Tail(block)

\* C4 as stated: a block with wrong sequence bytes writes nothing, leaves the
\* expected sequence alone and is answered with NAK.
C4_BadSequenceIsNaked ==
    [][(BadSeqAtHead /\ r_pc' # r_pc)
           => /\ r_sink' = r_sink
              /\ r_sequence' = r_sequence
              /\ r_wire' = Append(r_wire, NAK)]_vars

\* C4: a block with wrong sequence bytes writes nothing and leaves the
\* expected sequence alone; it is answered with NAK and the receiver goes on,
\* unless it is the (retry + 1)-th block in a row to fail, which is answered
\* with CAN CAN and ends the receive with None; after such a block the sound
\* block with the expected sequence is accepted: ACKed (or, as the MD5 block
\* with the expected digest, ends the receive) and the sequence advances.
C4_BadSequenceDiscarded ==
    [][/\ (BadSeqAtHead /\ r_pc' # r_pc)
              => /\ r_sink' = r_sink
                 /\ r_income_size' = r_income_size
                 /\ r_sequence' = r_sequence
                 /\ IF r_retrans > 1
                    THEN r_wire' = Append(r_wire, NAK) /\ r_pc' = "hdr_outer"
                    ELSE /\ r_wire' = r_wire \o <<CAN, CAN>>
                         /\ r_pc' = "done" /\ r_result' = RNone
       /\ (ExpectedBlockAtHead /\ r_dropped > 0 /\ r_pc' # r_pc)
              => \/ /\ r_wire' = Append(r_wire, ACK)
                    /\ r_sequence' = r_sequence + 1
                    /\ r_pc' = "hdr_outer"
                    /\ r_sink' = r_sink \o (IF r_sequence = 0 THEN <<>> ELSE FileBytes(1))
                 \/ /\ r_sequence = 0 /\ ~r_md5_received /\ r_md5 = Md5Hex(1)
                    /\ r_result' = RInt(0)]_vars

\* C4 witness: a block with wrong sequence bytes was discarded, and the MD5
\* block and the data block were accepted, the file being in the sink.
C4_Witness ==
    /\ r_dropped > 0
    /\ r_sequence = 2
    /\ r_sink = FileBytes(1)
    /\ r_wire[Len(r_wire)] = ACK
    /\ \E i \in 1..Len(r_wire) : r_wire[i] = NAK

C6_FirstPacketIsMd5 ==
    SendUnderWay => (s_wire # <<>> /\ IsMd5Block(s_wire[1]))

C8_SequenceInOrder ==
    SendUnderWay
        => /\ SentBlocks # <<>>
           /\ SentBlocks[1][2] = 0
           /\ \A i \in 1..Len(SentBlocks) :
                  /\ SentBlocks[i][3] = 255 - SentBlocks[i][2]
                  /\ i > 1 => SentBlocks[i][2] \in {SentBlocks[i - 1][2],
                                                    (SentBlocks[i - 1][2] + 1) % 256}

\* The peer of send_file has sent nothing: every handshake read timed out.
PeerSilent == p_budget = MaxPeerBytes /\ s_in = <<>>

C10_PeerCancelReturnsCanceled ==
    [][(r_pc = "hs_read" /\ r_cancel = 1 /\ r_in # <<>> /\ Head(r_in) = CAN
            /\ r_pc' = "done")
           => (r_result' = RInt(-1) /\ r_sink' = <<>>)]_vars

ReceiveEndedOk == r_pc = "done" /\ r_wire # <<>> /\ r_wire[Len(r_wire)] = ACK /\ r_result # RNone

\* C15: _handle_upload, given what receive_file (called with md5_hash "")
\* returned and left in the stream, adds an entry to the store exactly when the
\* receive ended Ok(n): then the one entry, under the given path for UTF-8
\* data, with size the number of bytes received and md5 their MD5; after a
\* failed or cancelled receive it adds none.
C15_UploadStoresOnOk ==
    (r_pc = "done" /\ r_md5 = <<>>)
        => UploadEntries(r_result, <<"foo", "new.nc">>, r_sink)
               = IF ReceiveEndedOk
                 THEN {[path |-> <<"foo", "new.nc">>, size |-> Len(r_sink),
                        md5 |-> Md5Of(r_sink)]}
                 ELSE {}

\* receive_file has returned from the comparison of the MD5 block: the block
\* was taken and the expected sequence is still 0.
Md5Matched == r_pc = "done" /\ r_md5_received /\ r_sequence = 0

\* C16: receive_file returns 0 only when the sequence-0 MD5 equalled the
\* expected one, and a receive that ended with an acknowledged EOT is reported
\* by _handle_upload as a completed upload (the empty response), never as
\* "file already exists with same content".
C16_OutcomesDistinguishable ==
    r_pc = "done"
        => /\ r_result = RInt(0) => Md5Matched
           /\ ReceiveEndedOk => UploadReply(r_result) = ""

\* receive_file is at a block boundary: the getc of a header returns, from the
\* handshake with SOH or STX or in the block loop with anything or nothing.
AtBlockBoundary ==
    \/ r_pc = "hdr_outer"
    \/ r_pc = "hs_read" /\ r_in # <<>> /\ Head(r_in) \in {SOH, STX}

C18_DownloadShortCircuit ==
    (s_pc = "done" /\ r_pc = "done" /\ Len(s_md5) = 32 /\ r_md5 = s_md5
         /\ r_retry >= 1 /\ p_budget = MaxLost)
        => /\ s_result = "None"
           /\ r_result = RInt(0)
           /\ Len(SentBlocks) = 1 /\ IsMd5Block(SentBlocks[1])
           /\ r_sink = <<>>

\* C20: when the channels lose exactly one byte or block and both retry
\* budgets are at least 2, the transfer still ends with the sender's True, the
\* receiver returning len(F) and the sink holding exactly F.
C20_RetryRecoversLoss ==
    (s_pc = "done" /\ r_pc = "done" /\ Len(s_md5) = 32 /\ r_md5 # s_md5
         /\ s_retry >= 2 /\ r_retry >= 2 /\ MaxLost - p_budget = 1)
        => /\ s_result = "True"
           /\ r_result = RInt(Len(FileBytes(s_file)))
           /\ r_sink = FileBytes(s_file)

\* The step of receive_file that has just counted out one of its budgets:
\* the handshake errors, the header waits or the retransmissions.
RecvBudgetExhausted ==
    \/ r_pc \in {"start", "hs_read"} /\ r_error_count' >= r_retry
    \/ r_pc \in {"hdr_outer", "hdr_inner"} /\ r_error_count' > r_retry
    \/ r_pc = "blk_read" /\ r_retrans' <= 0

\* The step of send_file that has just counted out its budget, in the
\* handshake or waiting for the answer to EOT.
SendBudgetExhausted == s_pc \in {"hs_read", "eot_read"} /\ s_error_count' > s_retry

\* send_file, where it gives up on a budget, returns False with the two putc
\* of abort() as its last writes.
SendExhaustedAborts ==
    [][(s_pc # "done" /\ s_pc' = "done" /\ s_result' = "False" /\ SendBudgetExhausted)
           => s_wire' = s_wire \o AbortBytes(2)]_vars

RECURSIVE CrcShiftBits(_, _)
CrcShiftBits(crc, n) ==
    IF n = 0 THEN crc
    ELSE CrcShiftBits(IF crc >= 32768 THEN XorWord((crc * 2) % 65536, 4129)
                                     ELSE crc * 2,
                      n - 1)

RECURSIVE CrcReference(_, _, _)
CrcReference(data, crc, i) ==
    IF i > Len(data) THEN crc
    ELSE CrcReference(data, CrcShiftBits(XorWord(crc, data[i] * 256), 8), i + 1)

C24_SingleCanTolerated ==
    [][(/\ r_pc \in {"hdr_outer", "hdr_inner"}
        /\ r_in # <<>> /\ Head(r_in) = CAN
        /\ r_cancel = 0
        /\ ~r_canceled /\ ~r_canceled'
        /\ p_budget' = p_budget)
           => (r_pc' # "done" /\ r_cancel' = 1 /\ r_in' = Tail(r_in))]_vars

\* C25: in the handshake of send_file a CAN that does not follow another CAN
\* directly (the read before it returned another byte, timed out, or there
\* was none) does not cancel the send: it is noted and, while the retry
\* budget lasts, the handshake goes on, so that None is returned there only
\* on the second of two consecutive CAN.
C25_OnlyConsecutiveCanCancels ==
    [][(/\ s_pc = "hs_read"
        /\ s_in # <<>> /\ Head(s_in) = CAN
        /\ s_char # CAN
        /\ s_reads' = s_reads + 1)
           => /\ s_result' # "None"
              /\ s_error_count < s_retry => (s_pc' = "hs_read" /\ s_cancel' = 1)]_vars

\* The wire of send_file ends with the two putc of abort().
SendWireEndsWithAbort ==
    Len(s_wire) >= 2 /\ SubSeq(s_wire, Len(s_wire) - 1, Len(s_wire)) = AbortBytes(2)

\* C26: a send that has left its handshake has put its block on the wire
\* and reads the answers to it; a first CAN among them is tolerated, so when
\* such a send has ended without success it has returned False, either with
\* the abort sequence behind it or on a CAN it read when one had been noted
\* before.
C26_DataPhaseToleratesFirstCan ==
    (SendUnderWay /\ s_pc = "done" /\ s_result # "True")
        => /\ SentBlocks # <<>>
           /\ s_result = "False"
           /\ SendWireEndsWithAbort \/ (s_char = CAN /\ s_cancel = 1)

\* How often the block with sequence q is on the wire.
Transmissions(q) == Cardinality({ i \in 1..Len(SentBlocks) : SentBlocks[i][2] = q })

\* C27: a send with retry at least 1 that has left its handshake transmits
\* its block, and no block more than retry times; when it has ended, it has
\* returned True, or False (with the abort sequence last on the wire when
\* the attempts of a block were used up), or None.
C27_PerBlockRetryBudget ==
    (SendUnderWay /\ s_retry >= 1)
        => /\ Transmissions(0) >= 1
           /\ \A q \in 0..255 : Transmissions(q) <= s_retry
           /\ s_pc = "done" => s_result \in {"True", "False"}
           /\ (s_pc = "done" /\ s_error_count > s_retry) => SendWireEndsWithAbort

\* The number of data blocks that file k makes with blocks of packet_size.
DataBlocks(k, packet_size) == (Len(FileBytes(k)) + packet_size - 1) \div packet_size

CrcProbes == Cardinality({ i \in 1..Len(r_wire) : r_wire[i] = CRC })

\* Every 'C' on the receiver's wire stands before everything else on it.
CrcProbesFirst ==
    \A i, j \in 1..Len(r_wire) : (i < j /\ r_wire[j] = CRC) => r_wire[i] = CRC

\* C29 as stated: receive_file emits 'C' at most floor(retry / 2) times.
C29_AtMostHalfRetryCrcProbes == CrcProbes <= r_retry \div 2

\* C29: the probes of the handshake are a run of 'C' followed by a run of
\* NAK, whatever the peer sends: no 'C' is written after any other byte; 'C'
\* is written at most floor(retry / 2) times, and once more if a CAN was read
\* while 'C' was being probed; crc_mode changes only from 1 to 0 and only as
\* the first NAK probe goes out, so that after a NAK probe the check is the
\* one-byte sum.
C29_CrcProbesThenNak ==
    /\ [](/\ CrcProbesFirst
          /\ CrcProbes <= r_retry \div 2 + 1
          /\ r_pc = "hs_read"
                 => /\ \A i \in 1..Len(r_wire) : r_wire[i] \in {CRC, NAK}
                    /\ CrcProbes <= r_retry \div 2 + r_cancel
                    /\ r_wire[Len(r_wire)] = NAK => r_crc_mode = 0)
    /\ [][/\ r_crc_mode' # r_crc_mode
                 => /\ r_crc_mode = 1 /\ r_crc_mode' = 0
                    /\ r_pc \in {"start", "hs_read"}
                    /\ r_wire' = Append(r_wire, NAK)
          /\ (r_pc \in {"start", "hs_read"} /\ r_wire' = Append(r_wire, NAK))
                 => r_crc_mode' = 0]_vars

\* C29 witness: with retry 2 the receiver probed with 'C', read a CAN, probed
\* with 'C' again, and after a timeout fell back to NAK and the one-byte sum.
C29_Witness ==
    /\ r_pc = "hs_read" /\ r_retry = 2
    /\ r_wire = <<CRC, CRC, NAK>>
    /\ r_cancel = 1 /\ r_crc_mode = 0

\* The peer of receive_file has sent nothing: every read has timed out.
RecvPeerSilent == p_budget = MaxPeerMsgs /\ r_in = <<>>

\* C30: in the handshake of receive_file a read that times out, and a read
\* that returns a byte other than SOH, STX and CAN, each add one to the error
\* count; when that makes the count reach retry the receiver writes CAN CAN
\* and returns None with nothing in the sink, otherwise it sends one more
\* probe and reads again.  The count stays below retry while the handshake
\* waits, and against a silent peer the probes number the errors counted plus
\* one, retry of them in all when the receiver has given up.
C30_HandshakeErrorsCounted ==
    /\ [](/\ r_pc = "hs_read" => (r_error_count < r_retry /\ r_sink = <<>>)
          /\ (RecvPeerSilent /\ r_pc = "hs_read") => Len(r_wire) = r_error_count + 1
          /\ (RecvPeerSilent /\ r_pc = "done")
                 => /\ r_result = RNone /\ r_sink = <<>>
                    /\ Len(r_wire) = r_retry + 2
                    /\ SubSeq(r_wire, r_retry + 1, r_retry + 2) = <<CAN, CAN>>
                    /\ \A i \in 1..r_retry : r_wire[i] \in {CRC, NAK})
    /\ [][(r_pc = "hs_read" /\ p_budget' = p_budget
            /\ (r_in = <<>> \/ Head(r_in) \notin {SOH, STX, CAN})
            /\ <<r_in, r_wire, r_pc>>' # <<r_in, r_wire, r_pc>>)
               => /\ r_error_count' = r_error_count + 1
                  /\ r_sink' = <<>>
                  /\ IF r_error_count + 1 >= r_retry
                     THEN /\ r_pc' = "done" /\ r_result' = RNone
                          /\ r_wire' = r_wire \o <<CAN, CAN>>
                     ELSE /\ r_pc' = "hs_read"
                          /\ Len(r_wire') = Len(r_wire) + 1
                          /\ r_wire'[Len(r_wire')] \in {CRC, NAK}]_vars

\* C30 witness: with retry 2 the receiver read one unexpected byte and had
\* one timeout, each counted, and gave up after its two probes with CAN CAN,
\* None and an empty sink.
C30_Witness ==
    /\ r_pc = "done" /\ r_result = RNone /\ r_sink = <<>>
    /\ r_retry = 2 /\ r_error_count = 2
    /\ p_budget = MaxPeerMsgs - 1 /\ r_in = <<>>
    /\ Len(r_wire) = 4 /\ SubSeq(r_wire, 3, 4) = <<CAN, CAN>>

\* A block is behind the header just read that carries the expected sequence
\* bytes and the whole payload, its last check byte damaged.
BadCheckAtHead ==
    /\ r_pc = "blk_read"
    /\ r_sequence \in {0, 1}
    /\ LET block == PeerBlocks[SizeIx(PacketSize(r_mode))][ModeIx(r_crc_mode = 1)]
                              [r_sequence + 1]
       IN  Take(r_in, Len(block) - 1) = Tail(BadCheck(block))

\* C31 as stated: a block with the expected sequence and a wrong check writes
\* nothing, leaves the expected sequence alone and is answered with NAK.
C31_BadChecksumIsNaked ==
    [][(BadCheckAtHead /\ r_pc' # r_pc)
           => /\ r_sink' = r_sink
              /\ r_sequence' = r_sequence
              /\ r_wire' = Append(r_wire, NAK)]_vars

\* C31: a block with the expected sequence and a wrong check (CRC16 or sum)
\* writes nothing and leaves the expected sequence alone; it is answered with
\* NAK, unless it is the (retry + 1)-th block in a row to fail, which is
\* answered with CAN CAN and ends the receive with None; the sound block of
\* the same sequence that follows a refusal is ACKed, advances the sequence
\* and, as a data block, is written to the sink once.
C31_BadChecksumRefused ==
    [][/\ (BadCheckAtHead /\ r_pc' # r_pc)
              => /\ r_sink' = r_sink
                 /\ r_income_size' = r_income_size
                 /\ r_sequence' = r_sequence
                 /\ r_md5_received' = r_md5_received
                 /\ IF r_retrans > 1
                    THEN r_wire' = Append(r_wire, NAK) /\ r_pc' = "hdr_outer"
                    ELSE /\ r_wire' = r_wire \o <<CAN, CAN>>
                         /\ r_pc' = "done" /\ r_result' = RNone
       /\ (ExpectedBlockAtHead /\ r_retrans < r_retry + 1 /\ r_pc' # r_pc)
              => \/ /\ r_wire' = Append(r_wire, ACK)
                    /\ r_sequence' = r_sequence + 1
                    /\ r_pc' = "hdr_outer"
                    /\ r_retrans' = r_retry + 1
                    /\ r_sink' = r_sink \o (IF r_sequence = 0 THEN <<>> ELSE FileBytes(1))
                 \/ /\ r_sequence = 0 /\ ~r_md5_received /\ r_md5 = Md5Hex(1)
                    /\ r_result' = RInt(0)]_vars

\* C31 witness: after the MD5 block, a data block with a wrong check (the only
\* block of this peer that fails with sound sequence bytes) was refused with
\* NAK, nothing written, and its sound retransmission is behind the header.
C31_Witness ==
    /\ ExpectedBlockAtHead
    /\ r_sequence = 1 /\ r_md5_received
    /\ r_retrans = r_retry /\ r_dropped = 0
    /\ r_sink = <<>>
    /\ r_wire[Len(r_wire)] = NAK

C33_EotReturnsBytesWritten ==
    /\ [](/\ r_income_size = Len(r_sink)
          /\ r_sink = (IF r_sequence >= 2 THEN FileBytes(1) ELSE <<>>)
          /\ (r_pc = "done" /\ r_result.kind = "int" /\ r_result.val > 0)
                 => (r_result.val = Len(r_sink) /\ r_wire[Len(r_wire)] = ACK))
    /\ [][/\ (/\ r_pc \in {"hdr_outer", "hdr_inner"}
               /\ r_in # <<>> /\ Head(r_in) = EOT
               /\ ~r_canceled
               /\ p_budget' = p_budget /\ r_in' # r_in)
                  => /\ r_pc' = "done"
                     /\ r_result' = RInt(Len(r_sink))
                     /\ r_wire' = Append(r_wire, ACK)
                     /\ r_sink' = r_sink
          /\ (r_pc = "done") => (r_sink' = r_sink /\ r_result' = r_result)]_vars

\* C33 witness: the MD5 block and the data block were accepted, EOT was read
\* and answered with ACK, and the value returned is the length of the sink.
C33_Witness ==
    /\ r_pc = "done"
    /\ r_sink = FileBytes(1)
    /\ r_result = RInt(Len(FileBytes(1)))
    /\ r_sequence = 2
    /\ Len(r_wire) >= 3
    /\ SubSeq(r_wire, Len(r_wire) - 2, Len(r_wire)) = <<ACK, ACK, ACK>>

\* The line without the blanks around it, told by where its first and last
\* characters other than blank stand.
Trimmed(str) ==
    LET inked == { i \in 1..Len(str) : str[i] # " " }
    IN  IF inked = {} THEN <<>>
        ELSE SubSeq(str, CHOOSE i \in inked : \A j \in inked : i <= j,
                         CHOOSE i \in inked : \A j \in inked : j <= i)

\* The first token of a trimmed line: its longest prefix without a blank.
FirstToken(str) ==
    LET ends == { n \in 0..Len(str) : \A i \in 1..n : str[i] # " " }
    IN  SubSeq(str, 1, CHOOSE n \in ends : \A k \in ends : k <= n)

\* w is the letter, one or more digits and, perhaps, a point and one or more
\* digits.
IsCode(letter, w) ==
    /\ Len(w) >= 2
    /\ w[1] = letter
    /\ \E a \in 2..Len(w) :
           /\ \A i \in 2..a : w[i] \in Digits
           /\ \/ a = Len(w)
              \/ /\ a + 2 <= Len(w)
                 /\ w[a + 1] = "."
                 /\ \A i \in (a + 2)..Len(w) : w[i] \in Digits

\* The longest prefix of str that is such a code, or "" where there is none.
CodeOf(letter, str) ==
    LET lens == { n \in 1..Len(str) : IsCode(letter, SubSeq(str, 1, n)) }
    IN  IF lens = {} THEN <<>>
        ELSE SubSeq(str, 1, CHOOSE n \in lens : \A k \in lens : k <= n)

\* The first entry of a table that meets a test, or (None, None).
FirstOf(table, Test(_)) ==
    LET hits == { i \in 1..Len(table) : Test(table[i].key) }
    IN  IF hits = {} THEN NoneNone
        ELSE Found(table[CHOOSE i \in hits : \A j \in hits : i <= j])

\* The resolution order of the router on a line.
Routed(command_line) ==
    LET str == Trimmed(command_line)
        IsHost(key) == Len(key) <= Len(str) /\ \A i \in 1..Len(key) : str[i] = key[i]
        IsConsole(key) == str # <<>> /\ lower(key) = lower(FirstToken(str))
        IsG(key) == key = CodeOf("G", upper(str))
        IsM(key) == key = CodeOf("M", upper(str))
        host == FirstOf(commands.host_commands, IsHost)
        console == FirstOf(commands.console_commands, IsConsole)
        g == FirstOf(commands.g_codes, IsG)
        m == FirstOf(commands.m_codes, IsM)
    IN  IF host # NoneNone THEN host
        ELSE IF console # NoneNone THEN console
        ELSE IF g # NoneNone THEN g
        ELSE IF m # NoneNone THEN m
        ELSE NoneNone

\* C34: what _parse_command returns is what the resolution order gives for
\* the trimmed line: the first host command whose key the line begins with,
\* else the console command that is its first token in lower case, else its
\* G-code, else its M-code, else (None, None); it is determined by the line
\* and the catalogue, and the call leaves the line and the server alone.
C34_RouterOrder ==
    /\ [](cmd_parsed # NotParsed => cmd_parsed = Routed(cmd_line))
    /\ [][cmd_parsed' # cmd_parsed => UNCHANGED <<cmd_line, srvVars>>]_vars

\* C34 witness: the line " g1 " has been routed to the console command g1,
\* though its trimmed text is also the G-code G1 of the catalogue.
C34_Witness ==
    /\ cmd_line = <<" ", "g", "1", " ">>
    /\ cmd_parsed = Found(commands.console_commands[2])
    /\ upper(strip(cmd_line)) = commands.g_codes[1].key

\* C36: every line a session writes to its client is written when a
\* think-time sleep ends, the sleep having begun after the dispatch of the
\* command.
C36_SleepBeforeEveryResponse ==
    [][\A c \in Conns :
           (hpc[c] \in Live /\ Len(sent'[c]) > Len(sent[c])) => hpc[c] = "sleep"]_vars

\* The texts that denote an epoch within 0..2^31-1.
EpochTexts == {"0", "5", "7", "2147483647"}

\* C35: the clock is initialised exactly when both of its fields are set and
\* stays initialised; a query before that answers "ERROR: Time not
\* initialized", a query after it answers an integer not below the epoch last
\* set; "time = e" with e within 0..2^31-1 sets the clock to e and answers
\* the empty line; every other set answers an ERROR line and leaves the clock
\* as it was.
C35_SimulatedClock ==
    /\ [](/\ clk_initialized <=> clk_epoch # NoFloat
          /\ clk_initialized <=> clk_at_init # NoTime)
    /\ [][clk_calls' > clk_calls =>
             /\ clk_initialized => clk_initialized'
             /\ (clk_line' = TimeQuery /\ ~clk_initialized)
                    => clk_reply' = Response("ERROR: Time not initialized")
             /\ (clk_line' = TimeQuery /\ clk_initialized)
                    => /\ clk_reply'.kind = "int"
                       /\ clk_epoch.kind = "num"
                       /\ ~FloatLess(clk_reply'.num, clk_epoch)
             /\ (clk_line'.eqs = 1 /\ clk_line'.text \in EpochTexts)
                    => /\ clk_reply' = Response("")
                       /\ clk_initialized'
                       /\ clk_epoch' = float(clk_line'.text)
                       /\ clk_at_init' = clk_now
             /\ (clk_line'.eqs > 0 /\ ~(clk_line'.eqs = 1 /\ clk_line'.text \in EpochTexts))
                    => /\ clk_reply' \in {Response("ERROR: Invalid time value"),
                                          Response("ERROR: Invalid time format")}
                       /\ UNCHANGED <<clk_initialized, clk_epoch, clk_at_init>>]_vars

\* C40: rm and mv that name a file not in the store answer an ERROR line and
\* leave the store as it was; rm of a stored file removes that entry and no
\* other; mv of a stored file s to d leaves the contents, size and md5 of s
\* under d, whatever d held before, removes s unless d is s, and changes no
\* other entry.
C40_RmMvFrame ==
    [][fs_calls' > fs_calls =>
          LET s == normalize_path(fs_cmd'.source, 1)
              d == normalize_path(fs_cmd'.dest, 1)
              files == DOMAIN fs_store
          IN  /\ s \notin files
                    => /\ fs_store' = fs_store
                       /\ fs_reply'.text \in {"ERROR: File not found: ",
                                              "ERROR: Source file not found: "}
                       /\ fs_reply'.path = s
              /\ (s \in files /\ fs_cmd'.key = "rm")
                    => /\ DOMAIN fs_store' = files \ {s}
                       /\ \A q \in files \ {s} : fs_store'[q] = fs_store[q]
                       /\ fs_reply' = Line("ok", <<>>)
              /\ (s \in files /\ fs_cmd'.key = "mv")
                    => /\ DOMAIN fs_store' = (files \ {s}) \cup {d}
                       /\ fs_store'[d].contents = fs_store[s].contents
                       /\ fs_store'[d].size = fs_store[s].size
                       /\ fs_store'[d].md5 = fs_store[s].md5
                       /\ \A q \in files \ {s, d} : fs_store'[q] = fs_store[q]
                       /\ fs_reply' = Line("ok", <<>>)]_vars

\* C40 witness: /foo/a.nc was moved onto /bar/b.nc, which was stored: its
\* contents, size and md5 are what /bar/b.nc holds now, and it is the only
\* entry.
C40_Witness ==
    /\ fs_calls = 1
    /\ fs_cmd = FsCmd("mv", [lead |-> 1, segs |-> <<"foo", "a.nc">>],
                      [lead |-> 1, segs |-> <<"bar", "b.nc">>])
    /\ DOMAIN fs_store = {<<"bar", "b.nc">>}
    /\ fs_store[<<"bar", "b.nc">>] =
           FileInfo(<<"bar", "b.nc">>, Len(FileBytes(1)), Md5Hex(1), FileBytes(1))
    /\ fs_reply = Line("ok", <<>>)

\* The sound data block that was accepted before is behind the header again,
\* as a sender whose ACK was lost repeats it.
RepeatedBlockAtHead ==
    /\ r_pc = "blk_read"
    /\ r_sequence = 2
    /\ r_sink = FileBytes(1)
    /\ LET block == PeerBlocks[SizeIx(PacketSize(r_mode))][ModeIx(r_crc_mode = 1)][2]
       IN  Take(r_in, Len(block) - 1) = Tail(block)

SendOutcomes == {"True", "False", "None"}

\* C39: a send_file that keeps running, against a peer that sends finitely
\* many bytes, returns one of True, False and None; the handshake loop and
\* the EOT loop are left by the count of errors against retry, for every
\* retry from 0.
C39_SendTerminates == <>(s_pc = "done" /\ s_result \in SendOutcomes)

\* send_file ends, whatever with.
SendEnds == <>(s_pc = "done")

\* receive_file ends, with None or a count: the handshake, the wait for a
\* header, the retransmissions and the drain are each left by a count against
\* retry or by the peer's silence.
RecvEnds == <>(r_pc = "done" /\ r_result # RRunning)

====
